---- MODULE Spec2Model ----
(***************************************************************************)
(* Jobly back end: the query-construction layer (helpers/sql.js) and the   *)
(* resource models that call it (models/job.js, models/company.js,         *)
(* models/user.js), run against a small relational store.                  *)
(*                                                                         *)
(* Query text is modelled as the text itself (a TLA+ string, runs of white *)
(* space written as one blank); the store reads that text back: it finds   *)
(* the clauses, the column names and the $n placeholders in it and binds   *)
(* them to the parameter list.                                             *)
(***************************************************************************)
EXTENDS Integers, Sequences, FiniteSets, TLC

----------------------------------------------------------------------------
(* JavaScript values.  Every value is a record of the same shape so that   *)
(* values of different types can be compared.                              *)

Str(s) == [t |-> "string", s |-> s, n |-> 0, a |-> <<>>]

Num(n) == [t |-> "number", s |-> "", n |-> n, a |-> <<>>]

Bool(b) == [t |-> "boolean", s |-> "", n |-> IF b THEN 1 ELSE 0, a |-> <<>>]

Null == [t |-> "null", s |-> "", n |-> 0, a |-> <<>>]

Undefined == [t |-> "undefined", s |-> "", n |-> 0, a |-> <<>>]

(* an array of values *)
Array(a) == [t |-> "array", s |-> "", n |-> 0, a |-> a]

(* a built-in function, by its name *)
Function(name) == [t |-> "function", s |-> name, n |-> 0, a |-> <<>>]

(* an object as a value: a holds its properties *)
Object(o) == [t |-> "object", s |-> "", n |-> 0, a |-> o]

(* if (v), v || w *)
Truthy(v) ==
  CASE v.t = "string" -> v.s # ""
    [] v.t = "number" -> v.n # 0
    [] v.t = "boolean" -> v.n = 1
    [] v.t = "array" -> TRUE
    [] v.t = "function" -> TRUE
    [] v.t = "object" -> TRUE
    [] OTHER -> FALSE

(* `${v}` *)
JsToString(v) ==
  CASE v.t = "string" -> v.s
    [] v.t = "number" -> ToString(v.n)
    [] v.t = "boolean" -> IF v.n = 1 THEN "true" ELSE "false"
    [] v.t = "null" -> "null"
    [] v.t = "function" -> "function " \o v.s \o "() { [native code] }"
    [] v.t = "object" -> "[object Object]"
    [] OTHER -> "undefined"

(* a > b on two numbers; false when either side is undefined *)
JsGreater(a, b) == a.t = "number" /\ b.t = "number" /\ a.n > b.n

----------------------------------------------------------------------------
(* JavaScript objects: the own properties in insertion order, and behind   *)
(* them the properties every object literal inherits.                      *)

Prop(k, v) == [k |-> k, v |-> v]

ObjectKeys(o) == [i \in 1..Len(o) |-> o[i].k]

ObjectValues(o) == [i \in 1..Len(o) |-> o[i].v]

HasOwn(o, k) == \E i \in 1..Len(o) : o[i].k = k

(* the methods of Object.prototype *)
ObjectPrototype ==
  [constructor |-> Function("Object"), toString |-> Function("toString"),
   valueOf |-> Function("valueOf"), hasOwnProperty |-> Function("hasOwnProperty")]

(* o[k], o.k and the destructuring const {k} = o *)
GetProp(o, k) ==
  IF HasOwn(o, k) THEN o[CHOOSE i \in 1..Len(o) : o[i].k = k].v
  ELSE IF k \in DOMAIN ObjectPrototype THEN ObjectPrototype[k]
  ELSE Undefined

(* o.k = v *)
SetProp(o, k, v) ==
  IF HasOwn(o, k)
    THEN [i \in 1..Len(o) |-> IF o[i].k = k THEN Prop(k, v) ELSE o[i]]
    ELSE Append(o, Prop(k, v))

(* delete o.k *)
DeleteProp(o, k) == SelectSeq(o, LAMBDA p : p.k # k)

----------------------------------------------------------------------------
(* Strings.                                                                *)

CharAt(s, i) == SubSeq(s, i, i)

StartsWithAt(s, sub, i) ==
  i + Len(sub) - 1 <= Len(s) /\ SubSeq(s, i, i + Len(sub) - 1) = sub

(* first position >= i at which sub occurs in s, 0 when there is none *)
IndexFrom(s, sub, i) ==
  LET at == {k \in i..(Len(s) - Len(sub) + 1) : StartsWithAt(s, sub, k)}
  IN IF at = {} THEN 0 ELSE CHOOSE k \in at : \A m \in at : k <= m

IndexOf(s, sub) == IndexFrom(s, sub, 1)

Contains(s, sub) == IndexOf(s, sub) # 0

EndsWith(s, sub) == StartsWithAt(s, sub, Len(s) - Len(sub) + 1)

RECURSIVE Split(_, _)
(* s.split(sep), sep not empty *)
Split(s, sep) ==
  LET i == IndexOf(s, sep)
  IN IF i = 0 THEN <<s>>
     ELSE <<SubSeq(s, 1, i - 1)>> \o Split(SubSeq(s, i + Len(sep), Len(s)), sep)

RECURSIVE Join(_, _)
(* parts.join(sep) *)
Join(parts, sep) ==
  IF Len(parts) = 0 THEN ""
  ELSE IF Len(parts) = 1 THEN parts[1]
  ELSE parts[1] \o sep \o Join(Tail(parts), sep)

----------------------------------------------------------------------------
(* helpers/sql.js                                                          *)

(* jsToSql[colName] || colName *)
ColName(jsToSql, colName) ==
  IF Truthy(GetProp(jsToSql, colName)) THEN GetProp(jsToSql, colName)
  ELSE Str(colName)

(* a variant that numbers the placeholders as the keys are indexed *)
ColTokenFromZero(jsToSql, colName, idx) ==
  "\"" \o JsToString(ColName(jsToSql, colName)) \o "\"=$" \o ToString(idx)

(* `"${jsToSql[colName] || colName}"=$${idx + 1}`, idx counted from 0 *)
ColToken(jsToSql, colName, idx) ==
  "\"" \o JsToString(ColName(jsToSql, colName)) \o "\"=$" \o ToString(idx + 1)

(* what a call returns or throws: err is the class of the error thrown,    *)
(* "" when the call returns                                                *)
Built(err, setCols, values) == [err |-> err, setCols |-> setCols, values |-> values]

(* a variant without the check of the keys *)
sqlForPartialUpdateUnchecked(dataToUpdate, jsToSql) ==
  Built("",
        Join([i \in 1..Len(dataToUpdate) |-> ColToken(jsToSql, dataToUpdate[i].k, i - 1)],
             ", "),
        ObjectValues(dataToUpdate))

sqlForPartialUpdate(dataToUpdate, jsToSql) ==
  LET keys == ObjectKeys(dataToUpdate)
      cols == [i \in 1..Len(keys) |-> ColToken(jsToSql, keys[i], i - 1)]
  IN IF Len(keys) = 0 THEN Built("BadRequestError", "", <<>>)
     ELSE Built("", Join(cols, ", "), ObjectValues(dataToUpdate))

----------------------------------------------------------------------------
(* The store: PostgreSQL reached through db.query(text, params).  A table  *)
(* is a set of rows, a row maps each column of the table to a value.       *)

Schema ==
  [companies |-> {"handle", "name", "description", "num_employees", "logo_url"},
   jobs |-> {"id", "title", "salary", "equity", "company_handle"},
   users |-> {"username", "password", "first_name", "last_name", "email",
              "is_admin"},
   applications |-> {"username", "job_id"}]

Tables == DOMAIN Schema

IsDigit(c) == c \in {"0", "1", "2", "3", "4", "5", "6", "7", "8", "9"}

DigitValue(c) ==
  CASE c = "0" -> 0 [] c = "1" -> 1 [] c = "2" -> 2 [] c = "3" -> 3
    [] c = "4" -> 4 [] c = "5" -> 5 [] c = "6" -> 6 [] c = "7" -> 7
    [] c = "8" -> 8 [] c = "9" -> 9

IsNat(s) == Len(s) > 0 /\ \A i \in 1..Len(s) : IsDigit(CharAt(s, i))

RECURSIVE ParseNat(_)
ParseNat(s) ==
  IF Len(s) = 0 THEN 0
  ELSE 10 * ParseNat(SubSeq(s, 1, Len(s) - 1)) + DigitValue(CharAt(s, Len(s)))

RECURSIVE DigitsEnd(_, _)
(* the last position of the run of digits that starts at position i *)
DigitsEnd(s, i) ==
  IF i <= Len(s) /\ IsDigit(CharAt(s, i)) THEN DigitsEnd(s, i + 1) ELSE i - 1

RECURSIVE PlaceholdersFrom(_, _)
PlaceholdersFrom(s, i) ==
  LET d == IndexFrom(s, "$", i)
      e == DigitsEnd(s, d + 1)
  IN IF d = 0 THEN <<>>
     ELSE IF e = d THEN PlaceholdersFrom(s, d + 1)
     ELSE <<ParseNat(SubSeq(s, d + 1, e))>> \o PlaceholdersFrom(s, e + 1)

(* the numbers of the $n placeholders of a text, left to right *)
Placeholders(text) == PlaceholdersFrom(text, 1)

IsPlaceholder(tok) == Len(tok) >= 2 /\ CharAt(tok, 1) = "$" /\ IsNat(SubSeq(tok, 2, Len(tok)))

(* "name" (a quoted identifier) or name *)
Unquote(id) ==
  IF Len(id) >= 2 /\ CharAt(id, 1) = "\"" /\ CharAt(id, Len(id)) = "\""
    THEN SubSeq(id, 2, Len(id) - 1)
    ELSE id

----------------------------------------------------------------------------
(* Reading a statement.  A table reference binds an alias to a table; a    *)
(* column reference is col or alias.col; an operand is a placeholder, a    *)
(* number or a column reference.  What is read carries ok = FALSE where    *)
(* the store finds no such column and syntax = FALSE where it cannot read  *)
(* the text.                                                               *)

Binding(alias, table) == [alias |-> alias, table |-> table]

TableWords(w) ==
  IF Len(w) = 1 THEN <<Binding(w[1], w[1])>>
  ELSE IF Len(w) = 2 THEN <<Binding(w[2], w[1])>>
  ELSE IF Len(w) = 3 /\ w[2] = "AS" THEN <<Binding(w[3], w[1])>>
  ELSE <<>>

(* t, t a, t AS a *)
TableRef(s) == TableWords(Split(s, " "))

TablesOk(bindings, n) ==
  Len(bindings) = n /\ \A i \in 1..n : bindings[i].table \in Tables

Operand(ok, kind, n, alias, col) ==
  [ok |-> ok, kind |-> kind, n |-> n, alias |-> alias, col |-> col]

(* the tables that have the column q names: q is <<col>> or <<alias, col>> *)
Owners(bindings, q) ==
  {i \in 1..Len(bindings) :
     /\ q[Len(q)] \in Schema[bindings[i].table]
     /\ Len(q) = 2 => bindings[i].alias = q[1]}

(* undefined and ambiguous columns are errors *)
RefOf(bindings, q) ==
  IF Len(q) <= 2 /\ Cardinality(Owners(bindings, q)) = 1
    THEN Operand(TRUE, "column", 0,
                 bindings[CHOOSE i \in Owners(bindings, q) : TRUE].alias, q[Len(q)])
    ELSE Operand(FALSE, "column", 0, "", q[Len(q)])

(* col, alias.col *)
ReadRef(bindings, ref) == RefOf(bindings, Split(ref, "."))

(* $n, a number, a column *)
ReadOperand(bindings, tok) ==
  IF IsPlaceholder(tok)
    THEN Operand(TRUE, "param", ParseNat(SubSeq(tok, 2, Len(tok))), "", "")
  ELSE IF IsNat(tok) THEN Operand(TRUE, "number", ParseNat(tok), "", "")
  ELSE ReadRef(bindings, tok)

OperandValue(env, params, o) ==
  CASE o.kind = "param" -> params[o.n]
    [] o.kind = "number" -> Num(o.n)
    [] o.kind = "column" -> env[o.alias][o.col]

Operators == {"=", ">", ">=", "<=", "ILIKE"}

Cond(lhs, op, rhs) ==
  [ok |-> lhs.ok /\ rhs.ok, syntax |-> op \in Operators, lhs |-> lhs, op |-> op,
   rhs |-> rhs]

NoCond == Cond(Operand(FALSE, "", 0, "", ""), "", Operand(FALSE, "", 0, "", ""))

CondOf(bindings, w) ==
  IF Len(w) # 3 THEN NoCond
  ELSE Cond(ReadOperand(bindings, w[1]), w[2], ReadOperand(bindings, w[3]))

(* lhs op rhs *)
ReadCond(bindings, cond) == CondOf(bindings, Split(cond, " "))

CondsOf(bindings, cs) == [i \in 1..Len(cs) |-> ReadCond(bindings, cs[i])]

(* cond AND cond ... *)
ReadWhere(bindings, where) == CondsOf(bindings, Split(where, " AND "))

ToLower(c) ==
  CASE c = "A" -> "a" [] c = "B" -> "b" [] c = "C" -> "c" [] c = "D" -> "d"
    [] c = "E" -> "e" [] c = "F" -> "f" [] c = "G" -> "g" [] c = "H" -> "h"
    [] c = "I" -> "i" [] c = "J" -> "j" [] c = "K" -> "k" [] c = "L" -> "l"
    [] c = "M" -> "m" [] c = "N" -> "n" [] c = "O" -> "o" [] c = "P" -> "p"
    [] c = "Q" -> "q" [] c = "R" -> "r" [] c = "S" -> "s" [] c = "T" -> "t"
    [] c = "U" -> "u" [] c = "V" -> "v" [] c = "W" -> "w" [] c = "X" -> "x"
    [] c = "Y" -> "y" [] c = "Z" -> "z" [] OTHER -> c

RECURSIVE Like(_, _, _, _)
(* s from position j on matches pattern p from position i on: % stands for *)
(* any run of characters, _ for any one character, letters match whatever  *)
(* their case                                                              *)
Like(p, i, s, j) ==
  IF i > Len(p) THEN j > Len(s)
  ELSE IF CharAt(p, i) = "%"
    THEN Like(p, i + 1, s, j) \/ (j <= Len(s) /\ Like(p, i, s, j + 1))
  ELSE /\ j <= Len(s)
       /\ CharAt(p, i) = "_" \/ ToLower(CharAt(p, i)) = ToLower(CharAt(s, j))
       /\ Like(p, i + 1, s, j + 1)

ILike(s, pattern) == Like(pattern, 1, s, 1)

(* a comparison with NULL is unknown, and a row is kept only when the      *)
(* condition is true                                                       *)
Compare(a, op, b) ==
  IF a.t = "null" \/ b.t = "null" \/ a.t # b.t THEN FALSE
  ELSE CASE op = "=" -> a = b
         [] op = ">" -> a.n > b.n
         [] op = ">=" -> a.n >= b.n
         [] op = "<=" -> a.n <= b.n
         [] op = "ILIKE" -> ILike(a.s, b.s)

CondHolds(env, params, c) ==
  Compare(OperandValue(env, params, c.lhs), c.op, OperandValue(env, params, c.rhs))

WhereHolds(env, params, conds) ==
  \A i \in 1..Len(conds) : CondHolds(env, params, conds[i])

ItemOf(a, ref, agg) ==
  [ok |-> Len(a) <= 2 /\ ref.ok,
   name |-> IF Len(a) = 2 THEN Unquote(a[2]) ELSE IF agg THEN "json_agg" ELSE ref.col,
   ref |-> ref,
   agg |-> agg]

IsAgg(expr) == StartsWithAt(expr, "json_agg(", 1) /\ EndsWith(expr, ")")

ExprOf(bindings, a, expr) ==
  IF IsAgg(expr) THEN ItemOf(a, ReadRef(bindings, SubSeq(expr, 10, Len(expr) - 1)), TRUE)
  ELSE ItemOf(a, ReadRef(bindings, expr), FALSE)

(* expr, expr AS alias, expr AS "alias"; expr is a column or json_agg(col) *)
ReadItem(bindings, item) == ExprOf(bindings, Split(item, " AS "), Split(item, " AS ")[1])

ItemsOf(bindings, items) == [i \in 1..Len(items) |-> ReadItem(bindings, items[i])]

ReadList(bindings, list) == ItemsOf(bindings, Split(list, ", "))

AllOk(read) == \A i \in 1..Len(read) : read[i].ok

AllSyntax(read) == \A i \in 1..Len(read) : read[i].syntax

RECURSIVE Ascending(_)
(* the numbers of a set, smallest first *)
Ascending(ns) ==
  IF ns = {} THEN <<>>
  ELSE <<Num(CHOOSE x \in ns : \A y \in ns : x <= y)>>
         \o Ascending(ns \ {CHOOSE x \in ns : \A y \in ns : x <= y})

(* json_agg over the values of a group: the numbers, smallest first, and   *)
(* null where a value is NULL (the store promises no order)                *)
JsonAgg(vals) ==
  Ascending({v.n : v \in {v \in vals : v.t = "number"}})
    \o (IF Null \in vals THEN <<Null>> ELSE <<>>)

(* the result row of a group of source rows *)
ProjectGroup(envs, items) ==
  [a \in {items[i].name : i \in 1..Len(items)} |->
     IF items[CHOOSE i \in 1..Len(items) : items[i].name = a].agg
       THEN Array(JsonAgg({OperandValue(e, <<>>,
                                        items[CHOOSE i \in 1..Len(items) :
                                                items[i].name = a].ref) : e \in envs}))
       ELSE OperandValue(CHOOSE e \in envs : TRUE, <<>>,
                         items[CHOOSE i \in 1..Len(items) : items[i].name = a].ref)]

(* one result row per value of the GROUP BY column *)
Groups(envs, group, items) ==
  {ProjectGroup({e \in envs : OperandValue(e, <<>>, group) = g}, items) :
     g \in {OperandValue(e, <<>>, group) : e \in envs}}

(* the result row of one source row *)
Project(env, items) ==
  [a \in {items[i].name : i \in 1..Len(items)} |->
     OperandValue(env, <<>>, items[CHOOSE i \in 1..Len(items) : items[i].name = a].ref)]

From(ok, bindings, on, left) ==
  [ok |-> ok, bindings |-> bindings, on |-> on, left |-> left]

(* (cond) or cond *)
Bare(cond) ==
  IF StartsWithAt(cond, "(", 1) /\ EndsWith(cond, ")") THEN SubSeq(cond, 2, Len(cond) - 1)
  ELSE cond

FromJoin(bindings, on, left) ==
  From(/\ TablesOk(bindings, 2)
       /\ bindings[1].alias # bindings[2].alias
       /\ Len(on) = 2
       /\ ReadCond(bindings, Bare(on[2])).ok
       /\ ReadCond(bindings, Bare(on[2])).syntax,
       bindings, <<ReadCond(bindings, Bare(on[2]))>>, left)

FromParts(j, left) ==
  IF Len(j) = 1 THEN From(TablesOk(TableRef(j[1]), 1), TableRef(j[1]), <<>>, left)
  ELSE IF Len(j) = 2
    THEN FromJoin(TableRef(j[1]) \o TableRef(Split(j[2], " ON ")[1]), Split(j[2], " ON "),
                  left)
  ELSE From(FALSE, <<>>, <<>>, left)

(* t [AS a] [[LEFT] JOIN t2 AS b ON x = y] *)
ReadFrom(from) ==
  IF Contains(from, " LEFT JOIN ") THEN FromParts(Split(from, " LEFT JOIN "), TRUE)
  ELSE FromParts(Split(from, " JOIN "), FALSE)

Pair(bindings, l, r) ==
  [a \in {bindings[1].alias, bindings[2].alias} |->
     IF a = bindings[1].alias THEN l ELSE r]

NullRow(table) == [c \in Schema[table] |-> Null]

Partners(d, from, l) ==
  {r \in d[from.bindings[2].table] : CondHolds(Pair(from.bindings, l, r), <<>>, from.on[1])}

(* the source rows: one environment (alias -> row) per row of the table,   *)
(* or per pair of joined rows; a left row without a partner keeps a        *)
(* partner of NULLs in a LEFT JOIN and is dropped in a JOIN                *)
FromRows(d, from) ==
  IF Len(from.bindings) = 1
    THEN {[a \in {from.bindings[1].alias} |-> r] : r \in d[from.bindings[1].table]}
    ELSE UNION {IF Partners(d, from, l) = {}
                  THEN IF from.left
                         THEN {Pair(from.bindings, l, NullRow(from.bindings[2].table))}
                         ELSE {}
                  ELSE {Pair(from.bindings, l, r) : r \in Partners(d, from, l)} :
                l \in d[from.bindings[1].table]}

----------------------------------------------------------------------------
(* Running a statement: what db.query(text, params) resolves to (err = "") *)
(* or is rejected with, and the store it leaves.  Result rows are a set:   *)
(* ORDER BY is read but the order of the rows is not modelled.             *)

Result(err, rows, d) == [err |-> err, rows |-> rows, db |-> d]

PlaceholderSet(ph) == {ph[i] : i \in 1..Len(ph)}

(* the statement must use exactly the parameters it is given *)
BindOk(text, params) == PlaceholderSet(Placeholders(text)) = 1..Len(params)

(* SELECT list FROM from [WHERE where] [GROUP BY col] [ORDER BY col] *)
SelectCut(list, rest, iWhere, iGroup, iOrder) ==
  [list |-> list,
   from |-> SubSeq(rest, 1, IF iWhere # 0 THEN iWhere - 1
                            ELSE IF iGroup # 0 THEN iGroup - 1
                            ELSE IF iOrder # 0 THEN iOrder - 1 ELSE Len(rest)),
   hasWhere |-> iWhere # 0,
   where |-> SubSeq(rest, iWhere + 7, IF iGroup # 0 THEN iGroup - 1
                                      ELSE IF iOrder # 0 THEN iOrder - 1 ELSE Len(rest)),
   hasGroup |-> iGroup # 0,
   group |-> SubSeq(rest, iGroup + 10, IF iOrder # 0 THEN iOrder - 1 ELSE Len(rest)),
   hasOrder |-> iOrder # 0,
   order |-> SubSeq(rest, iOrder + 10, Len(rest))]

SelectRest(list, rest) ==
  SelectCut(list, rest, IndexOf(rest, " WHERE "), IndexOf(rest, " GROUP BY "),
            IndexOf(rest, " ORDER BY "))

SelectClauses(text, iFrom) ==
  SelectRest(SubSeq(text, 8, iFrom - 1), SubSeq(text, iFrom + 6, Len(text)))

(* in a grouped SELECT a column stands in the list as it is only when it   *)
(* is a column of the table whose key the rows are grouped by; json_agg    *)
(* is read in a grouped SELECT only                                        *)
GroupingOk(c, items, group) ==
  \A i \in 1..Len(items) :
    IF items[i].agg THEN c.hasGroup
    ELSE c.hasGroup => items[i].ref.alias = group.alias

Select(c, from, items, conds, group, order) ==
  [err |-> IF c.list = "" \/ ~from.ok \/ (c.hasWhere /\ c.where = "") \/ ~AllSyntax(conds)
             THEN "syntax error"
           ELSE IF \/ ~AllOk(items) \/ ~AllOk(conds)
                   \/ (c.hasGroup /\ ~group.ok) \/ (c.hasOrder /\ ~order.ok)
             THEN "undefined column"
           ELSE IF ~GroupingOk(c, items, group) THEN "grouping error"
           ELSE "",
   from |-> from, items |-> items, conds |-> conds, grouped |-> c.hasGroup,
   group |-> group]

SelectBound(c, from) ==
  Select(c, from, ReadList(from.bindings, c.list),
         IF c.hasWhere THEN ReadWhere(from.bindings, c.where) ELSE <<>>,
         ReadRef(from.bindings, c.group), ReadRef(from.bindings, c.order))

SelectRead(c) == SelectBound(c, ReadFrom(c.from))

ReadSelect(text) == SelectRead(SelectClauses(text, IndexOf(text, " FROM ")))

(* the source rows the WHERE clause keeps *)
Matching(d, params, st) ==
  {e \in FromRows(d, st.from) : WhereHolds(e, params, st.conds)}

Selected(d, params, st) ==
  IF st.grouped THEN Groups(Matching(d, params, st), st.group, st.items)
  ELSE {Project(e, st.items) : e \in Matching(d, params, st)}

RunSelect(d, text, params, st) ==
  IF st.err # "" THEN Result(st.err, {}, d)
  ELSE IF ~BindOk(text, params) THEN Result("bind error", {}, d)
  ELSE Result("", Selected(d, params, st), d)

DbSelect(d, text, params) == RunSelect(d, text, params, ReadSelect(text))

Assign(table, w) ==
  IF Len(w) # 2
    THEN [ok |-> FALSE, syntax |-> FALSE, col |-> "", rhs |-> Operand(FALSE, "", 0, "", "")]
    ELSE [ok |-> Unquote(w[1]) \in Schema[table], syntax |-> IsPlaceholder(w[2]),
          col |-> Unquote(w[1]), rhs |-> ReadOperand(<<Binding(table, table)>>, w[2])]

(* "col"=$n *)
ReadAssign(table, a) == Assign(table, Split(a, "="))

Assigns(table, as) == [i \in 1..Len(as) |-> ReadAssign(table, as[i])]

ReadSet(table, set) == Assigns(table, Split(set, ", "))

(* UPDATE table SET set WHERE where RETURNING list *)
UpdateCut(text, iSet, iWhere, iRet) ==
  [ok |-> iSet # 0 /\ iWhere # 0 /\ iRet # 0,
   table |-> SubSeq(text, 8, iSet - 1),
   set |-> SubSeq(text, iSet + 5, iWhere - 1),
   where |-> SubSeq(text, iWhere + 7, iRet - 1),
   list |-> SubSeq(text, iRet + 11, Len(text))]

UpdateTail(text, iSet, iWhere) ==
  UpdateCut(text, iSet, iWhere, IndexFrom(text, " RETURNING ", iWhere + 7))

UpdateClauses(text, iSet) ==
  UpdateTail(text, iSet, IndexFrom(text, " WHERE ", iSet + 5))

Update(c, set, conds, items) ==
  [err |-> IF ~AllSyntax(set) \/ ~AllSyntax(conds) THEN "syntax error"
           ELSE IF ~AllOk(set) \/ ~AllOk(conds) \/ ~AllOk(items) THEN "undefined column"
           ELSE IF \E i, k \in 1..Len(set) : i # k /\ set[i].col = set[k].col
             THEN "multiple assignments"
           ELSE "",
   table |-> c.table, set |-> set, conds |-> conds, items |-> items]

UpdateRead(c) ==
  IF ~c.ok \/ c.table \notin Tables \/ c.where = ""
    THEN [err |-> "syntax error", table |-> "", set |-> <<>>, conds |-> <<>>,
          items |-> <<>>]
    ELSE Update(c, ReadSet(c.table, c.set),
                ReadWhere(<<Binding(c.table, c.table)>>, c.where),
                ReadList(<<Binding(c.table, c.table)>>, c.list))

ReadUpdate(text) == UpdateRead(UpdateClauses(text, IndexOf(text, " SET ")))

Env(table, r) == [a \in {table} |-> r]

(* the rows the WHERE clause selects *)
Hit(d, params, st) ==
  {r \in d[st.table] : WhereHolds(Env(st.table, r), params, st.conds)}

(* a variant that keeps nothing of the row it replaces *)
NewOfSetOnly(params, st, r) ==
  [c \in Schema[st.table] |->
     IF \E i \in 1..Len(st.set) : st.set[i].col = c
       THEN OperandValue(Env(st.table, r), params,
                         st.set[CHOOSE i \in 1..Len(st.set) : st.set[i].col = c].rhs)
       ELSE Null]

(* a selected row with the assignments of the SET clause made *)
New(params, st, r) ==
  [c \in Schema[st.table] |->
     IF \E i \in 1..Len(st.set) : st.set[i].col = c
       THEN OperandValue(Env(st.table, r), params,
                         st.set[CHOOSE i \in 1..Len(st.set) : st.set[i].col = c].rhs)
       ELSE r[c]]

Updated(d, params, st, hit) ==
  Result("", {Project(Env(st.table, New(params, st, r)), st.items) : r \in hit},
         [d EXCEPT ![st.table] = (d[st.table] \ hit) \cup {New(params, st, r) : r \in hit}])

RunUpdate(d, text, params, st) ==
  IF st.err # "" THEN Result(st.err, {}, d)
  ELSE IF ~BindOk(text, params) THEN Result("bind error", {}, d)
  ELSE Updated(d, params, st, Hit(d, params, st))

DbUpdate(d, text, params) == RunUpdate(d, text, params, ReadUpdate(text))

(* DELETE FROM table WHERE where RETURNING list *)
DeleteCut(text, iWhere, iRet) ==
  [ok |-> iWhere # 0 /\ iRet # 0,
   table |-> SubSeq(text, 13, iWhere - 1),
   where |-> SubSeq(text, iWhere + 7, iRet - 1),
   list |-> SubSeq(text, iRet + 11, Len(text))]

DeleteClauses(text, iWhere) ==
  DeleteCut(text, iWhere, IndexFrom(text, " RETURNING ", iWhere + 7))

Delete(c, conds, items) ==
  [err |-> IF ~AllSyntax(conds) THEN "syntax error"
           ELSE IF ~AllOk(conds) \/ ~AllOk(items) THEN "undefined column"
           ELSE "",
   table |-> c.table, conds |-> conds, items |-> items]

DeleteRead(c) ==
  IF ~c.ok \/ c.table \notin Tables \/ c.where = ""
    THEN [err |-> "syntax error", table |-> "", conds |-> <<>>, items |-> <<>>]
    ELSE Delete(c, ReadWhere(<<Binding(c.table, c.table)>>, c.where),
                ReadList(<<Binding(c.table, c.table)>>, c.list))

ReadDelete(text) == DeleteRead(DeleteClauses(text, IndexOf(text, " WHERE ")))

(* the selected rows are taken out of the table and returned *)
Deleted(d, st, hit) ==
  Result("", {Project(Env(st.table, r), st.items) : r \in hit},
         [d EXCEPT ![st.table] = d[st.table] \ hit])

RunDelete(d, text, params, st) ==
  IF st.err # "" THEN Result(st.err, {}, d)
  ELSE IF ~BindOk(text, params) THEN Result("bind error", {}, d)
  ELSE Deleted(d, st, Hit(d, params, st))

DbDelete(d, text, params) == RunDelete(d, text, params, ReadDelete(text))

(* the columns that tell the rows of a table apart: no two rows of a table *)
(* agree on them, and the store rejects a row that would                   *)
PrimaryKey ==
  [companies |-> {"handle"}, jobs |-> {"id"}, users |-> {"username"},
   applications |-> {"username", "job_id"}]

(* INSERT INTO table (col, ...) VALUES ($n, ...) [RETURNING list] *)
InsertCut(text, iCols, iVals, iRet) ==
  [ok |-> iCols # 0 /\ iVals # 0 /\ (iRet # 0 \/ EndsWith(text, ")")),
   table |-> SubSeq(text, 13, iCols - 1),
   cols |-> SubSeq(text, iCols + 2, iVals - 1),
   vals |-> SubSeq(text, iVals + 10, IF iRet # 0 THEN iRet - 1 ELSE Len(text) - 1),
   hasList |-> iRet # 0,
   list |-> SubSeq(text, iRet + 12, Len(text))]

InsertTail(text, iCols, iVals) ==
  InsertCut(text, iCols, iVals, IndexFrom(text, ") RETURNING ", iVals + 10))

InsertClauses(text, iCols) ==
  InsertTail(text, iCols, IndexFrom(text, ") VALUES (", iCols + 2))

Insert(c, cols, vals, items) ==
  [err |-> IF Len(cols) # Len(vals) \/ \E i \in 1..Len(vals) : ~IsPlaceholder(vals[i])
             THEN "syntax error"
           ELSE IF (\E i \in 1..Len(cols) : cols[i] \notin Schema[c.table]) \/ ~AllOk(items)
             THEN "undefined column"
           ELSE IF \E i, k \in 1..Len(cols) : i # k /\ cols[i] = cols[k]
             THEN "multiple assignments"
           ELSE "",
   table |-> c.table, cols |-> cols, vals |-> vals, items |-> items]

InsertRead(c) ==
  IF ~c.ok \/ c.table \notin Tables
    THEN [err |-> "syntax error", table |-> "", cols |-> <<>>, vals |-> <<>>,
          items |-> <<>>]
    ELSE Insert(c, Split(c.cols, ", "), Split(c.vals, ", "),
                IF c.hasList THEN ReadList(<<Binding(c.table, c.table)>>, c.list)
                ELSE <<>>)

ReadInsert(text) == InsertRead(InsertClauses(text, IndexOf(text, " (")))

(* the parameter $n stands for; the driver sends undefined as NULL *)
ParamOf(params, tok) ==
  IF params[ParseNat(SubSeq(tok, 2, Len(tok)))] = Undefined THEN Null
  ELSE params[ParseNat(SubSeq(tok, 2, Len(tok)))]

(* the row of the VALUES list; a column the statement does not name is     *)
(* NULL                                                                    *)
Row(params, st) ==
  [c \in Schema[st.table] |->
     IF \E i \in 1..Len(st.cols) : st.cols[i] = c
       THEN ParamOf(params, st.vals[CHOOSE i \in 1..Len(st.cols) : st.cols[i] = c])
       ELSE Null]

(* a stored row has the key of row *)
Taken(d, table, row) ==
  \E r \in d[table] : \A k \in PrimaryKey[table] : r[k] = row[k]

Inserted(d, st, row) ==
  IF Taken(d, st.table, row) THEN Result("unique violation", {}, d)
  ELSE Result("", IF st.items = <<>> THEN {} ELSE {Project(Env(st.table, row), st.items)},
              [d EXCEPT ![st.table] = d[st.table] \cup {row}])

RunInsert(d, text, params, st) ==
  IF st.err # "" THEN Result(st.err, {}, d)
  ELSE IF ~BindOk(text, params) THEN Result("bind error", {}, d)
  ELSE Inserted(d, st, Row(params, st))

DbInsert(d, text, params) == RunInsert(d, text, params, ReadInsert(text))

(* db.query(text, params) *)
DbQuery(d, text, params) ==
  IF StartsWithAt(text, "SELECT ", 1) THEN DbSelect(d, text, params)
  ELSE IF StartsWithAt(text, "UPDATE ", 1) THEN DbUpdate(d, text, params)
  ELSE IF StartsWithAt(text, "DELETE FROM ", 1) THEN DbDelete(d, text, params)
  ELSE IF StartsWithAt(text, "INSERT INTO ", 1) THEN DbInsert(d, text, params)
  ELSE Result("syntax error", {}, d)

----------------------------------------------------------------------------
(* The resource models.  A call of a model method ends in a Run: the class *)
(* of the error it throws ("" when it returns), the rows it returns, the   *)
(* (text, params) pairs it handed to db.query, the store it leaves, and    *)
(* the caller's map as the call leaves it.                                 *)

Query(text, params) == [text |-> text, params |-> params]

Run(err, rows, queries, d, after) ==
  [err |-> err, rows |-> rows, queries |-> queries, db |-> d, after |-> after]

(* if (!result.rows[0]) throw new NotFoundError(...); return result.rows[0] *)
FirstRow(result, q, d, after) ==
  IF result.err # "" THEN Run(result.err, {}, <<q>>, d, after)
  ELSE IF result.rows = {} THEN Run("NotFoundError", {}, <<q>>, result.db, after)
  ELSE Run("", result.rows, <<q>>, result.db, after)

(* const result = await db.query(text, params), then the row or NotFound *)
ByKey(d, q, after) == FirstRow(DbQuery(d, q.text, q.params), q, d, after)

(* a variant that takes an empty result for a row *)
GoneUnchecked(result, q, d) == Run(result.err, {}, <<q>>, result.db, <<>>)

(* if (!result.rows[0]) throw new NotFoundError(...), and nothing returned *)
Gone(result, q, d) ==
  IF result.err # "" THEN Run(result.err, {}, <<q>>, d, <<>>)
  ELSE IF result.rows = {} THEN Run("NotFoundError", {}, <<q>>, result.db, <<>>)
  ELSE Run("", {}, <<q>>, result.db, <<>>)

(* return result.rows *)
AllRows(result, q, after) == Run(result.err, result.rows, <<q>>, result.db, after)

(* const result = await db.query(text, params); return result.rows *)
Rows(d, q, after) == AllRows(DbQuery(d, q.text, q.params), q, after)

(* a variant that takes the index of the last value *)
VarIdxOfLast(values) == "$" \o ToString(Len(values))

(* "$" + (values.length + 1) *)
VarIdx(values) == "$" \o ToString(Len(values) + 1)

(* models/job.js *)
JobUpdateSql(setCols, idVarIdx) ==
  "UPDATE jobs SET " \o setCols \o " WHERE id = " \o idVarIdx
    \o " RETURNING id, title, salary, equity, company_handle AS \"companyHandle\""

JobUpdateBuilt(d, id, data, b) ==
  IF b.err # "" THEN Run(b.err, {}, <<>>, d, data)
  ELSE ByKey(d, Query(JobUpdateSql(b.setCols, VarIdx(b.values)), b.values \o <<id>>), data)

JobUpdate(d, id, data) == JobUpdateBuilt(d, id, data, sqlForPartialUpdate(data, <<>>))

JobGetSql ==
  "SELECT id, title, salary, equity, company_handle AS \"companyHandle\""
    \o " FROM jobs WHERE id = $1"

JobGet(d, id) == ByKey(d, Query(JobGetSql, <<id>>), <<>>)

JobRemoveSql == "DELETE FROM jobs WHERE id = $1 RETURNING id"

JobRemove(d, id) == Gone(DbQuery(d, JobRemoveSql, <<id>>), Query(JobRemoveSql, <<id>>), d)

(* models/company.js *)
CompanyJsToSql ==
  <<Prop("numEmployees", Str("num_employees")), Prop("logoUrl", Str("logo_url"))>>

CompanyUpdateSql(setCols, handleVarIdx) ==
  "UPDATE companies SET " \o setCols \o " WHERE handle = " \o handleVarIdx
    \o " RETURNING handle, name, description, num_employees AS \"numEmployees\","
    \o " logo_url AS \"logoUrl\""

CompanyUpdateBuilt(d, handle, data, b) ==
  IF b.err # "" THEN Run(b.err, {}, <<>>, d, data)
  ELSE ByKey(d, Query(CompanyUpdateSql(b.setCols, VarIdx(b.values)), b.values \o <<handle>>),
             data)

CompanyUpdate(d, handle, data) ==
  CompanyUpdateBuilt(d, handle, data, sqlForPartialUpdate(data, CompanyJsToSql))

CompanyCheckSql == "SELECT handle FROM companies WHERE handle = $1"

CompanyInsertSql ==
  "INSERT INTO companies (handle, name, description, num_employees, logo_url)"
    \o " VALUES ($1, $2, $3, $4, $5)"
    \o " RETURNING handle, name, description, num_employees AS \"numEmployees\","
    \o " logo_url AS \"logoUrl\""

(* const { handle, name, description, numEmployees, logoUrl } = data *)
CompanyInsertQuery(data) ==
  Query(CompanyInsertSql,
        <<GetProp(data, "handle"), GetProp(data, "name"), GetProp(data, "description"),
          GetProp(data, "numEmployees"), GetProp(data, "logoUrl")>>)

CompanyCheckQuery(data) == Query(CompanyCheckSql, <<GetProp(data, "handle")>>)

(* what follows the first await: if (duplicateCheck.rows[0]) throw new     *)
(* BadRequestError(...), then the INSERT and return result.rows[0]         *)
CompanyCreateChecked(d, data, q1, q2, duplicateCheck) ==
  IF duplicateCheck.err # "" THEN Run(duplicateCheck.err, {}, <<q1>>, d, data)
  ELSE IF duplicateCheck.rows # {} THEN Run("BadRequestError", {}, <<q1>>, d, data)
  ELSE Rows(d, q2, data)

(* the call run from its start to its end with no other call in between *)
CompanyCreate(d, data) ==
  CompanyCreateChecked(d, data, CompanyCheckQuery(data), CompanyInsertQuery(data),
                       DbQuery(d, CompanyCheckSql, <<GetProp(data, "handle")>>))

CompanyGetSql ==
  "SELECT handle, name, description, num_employees AS \"numEmployees\","
    \o " logo_url AS \"logoUrl\" FROM companies WHERE handle = $1"

CompanyJobsSql ==
  "SELECT id, title, salary, equity FROM jobs WHERE company_handle = $1 ORDER BY id"

(* company.jobs = jobData.rows (the order of the rows apart) *)
WithJobRows(company, jobData) ==
  [f \in DOMAIN company \cup {"jobs"} |->
     IF f = "jobs" THEN Array(jobData.rows) ELSE company[f]]

CompanyGetResults(d, q1, q2, companyData, jobData) ==
  IF companyData.err # "" THEN Run(companyData.err, {}, <<q1>>, d, <<>>)
  ELSE IF companyData.rows = {} THEN Run("NotFoundError", {}, <<q1>>, d, <<>>)
  ELSE IF jobData.err # "" THEN Run(jobData.err, {}, <<q1, q2>>, d, <<>>)
  ELSE Run("", {WithJobRows(company, jobData) : company \in companyData.rows},
           <<q1, q2>>, d, <<>>)

CompanyGetQueries(d, q1, q2) ==
  CompanyGetResults(d, q1, q2, DbQuery(d, q1.text, q1.params),
                    DbQuery(d, q2.text, q2.params))

CompanyGet(d, handle) ==
  CompanyGetQueries(d, Query(CompanyGetSql, <<handle>>), Query(CompanyJobsSql, <<handle>>))

CompanyRemoveSql == "DELETE FROM companies WHERE handle = $1 RETURNING handle"

CompanyRemove(d, handle) ==
  Gone(DbQuery(d, CompanyRemoveSql, <<handle>>), Query(CompanyRemoveSql, <<handle>>), d)

(* models/user.js *)
UserJsToSql ==
  <<Prop("firstName", Str("first_name")), Prop("lastName", Str("last_name")),
    Prop("isAdmin", Str("is_admin"))>>

(* bcrypt.hash(password, BCRYPT_WORK_FACTOR): never the password itself *)
BcryptHash(password) == Str("bcrypt:" \o JsToString(password))

UserGetSql ==
  "SELECT u.username AS \"username\", first_name AS \"firstName\","
    \o " last_name AS \"lastName\", email, is_admin AS \"isAdmin\""
    \o " FROM users AS u WHERE u.username = $1"

UserJobsSql == "SELECT a.job_id FROM applications AS a WHERE a.username = $1"

(* user.jobs = userJobsRes.rows.map(a => a.job_id) *)
WithJobs(user, userJobsRes) ==
  [f \in DOMAIN user \cup {"jobs"} |->
     IF f = "jobs" THEN Array(Ascending({a.job_id.n : a \in userJobsRes.rows}))
     ELSE user[f]]

UserGetResults(d, q1, q2, userRes, userJobsRes) ==
  IF userRes.err # "" THEN Run(userRes.err, {}, <<q1>>, d, <<>>)
  ELSE IF userRes.rows = {} THEN Run("NotFoundError", {}, <<q1>>, d, <<>>)
  ELSE IF userJobsRes.err # "" THEN Run(userJobsRes.err, {}, <<q1, q2>>, d, <<>>)
  ELSE Run("", {WithJobs(user, userJobsRes) : user \in userRes.rows}, <<q1, q2>>, d, <<>>)

UserGetQueries(d, q1, q2) ==
  UserGetResults(d, q1, q2, DbQuery(d, q1.text, q1.params), DbQuery(d, q2.text, q2.params))

UserGet(d, username) ==
  UserGetQueries(d, Query(UserGetSql, <<username>>), Query(UserJobsSql, <<username>>))

UserUpdateSql(setCols, usernameVarIdx) ==
  "UPDATE users SET " \o setCols \o " WHERE username = " \o usernameVarIdx
    \o " RETURNING username"

(* const user = await User.get(username); return user *)
UserUpdateGot(q, data, user) ==
  Run(user.err, user.rows, <<q>> \o user.queries, user.db, data)

UserUpdateResult(d, username, data, q, result) ==
  IF result.err # "" THEN Run(result.err, {}, <<q>>, d, data)
  ELSE IF result.rows = {} THEN Run("NotFoundError", {}, <<q>>, result.db, data)
  ELSE UserUpdateGot(q, data, UserGet(result.db, username))

UserUpdateQuery(d, username, data, q) ==
  UserUpdateResult(d, username, data, q, DbQuery(d, q.text, q.params))

UserUpdateBuilt(d, username, data, b) ==
  IF b.err # "" THEN Run(b.err, {}, <<>>, d, data)
  ELSE UserUpdateQuery(d, username, data,
                       Query(UserUpdateSql(b.setCols, VarIdx(b.values)),
                             b.values \o <<username>>))

(* data as the method leaves it: data.password replaced by its hash *)
UserUpdateHashed(d, username, data) ==
  UserUpdateBuilt(d, username, data, sqlForPartialUpdate(data, UserJsToSql))

UserUpdate(d, username, data) ==
  UserUpdateHashed(d, username,
                   IF Truthy(GetProp(data, "password"))
                     THEN SetProp(data, "password", BcryptHash(GetProp(data, "password")))
                     ELSE data)

UserCheckSql == "SELECT username FROM users WHERE username = $1"

UserInsertSql ==
  "INSERT INTO users (username, password, first_name, last_name, email, is_admin)"
    \o " VALUES ($1, $2, $3, $4, $5, $6)"
    \o " RETURNING username, first_name AS \"firstName\", last_name AS \"lastName\","
    \o " email, is_admin AS \"isAdmin\""

(* [username, hashedPassword, firstName, lastName, email, isAdmin] *)
UserInsertQuery(data) ==
  Query(UserInsertSql,
        <<GetProp(data, "username"), BcryptHash(GetProp(data, "password")),
          GetProp(data, "firstName"), GetProp(data, "lastName"), GetProp(data, "email"),
          GetProp(data, "isAdmin")>>)

UserCheckQuery(data) == Query(UserCheckSql, <<GetProp(data, "username")>>)

(* what follows the first await: if (duplicateCheck.rows[0]) throw new     *)
(* BadRequestError(...), then the hash, the INSERT and return              *)
(* result.rows[0]                                                          *)
UserRegisterChecked(d, data, q1, q2, duplicateCheck) ==
  IF duplicateCheck.err # "" THEN Run(duplicateCheck.err, {}, <<q1>>, d, data)
  ELSE IF duplicateCheck.rows # {} THEN Run("BadRequestError", {}, <<q1>>, d, data)
  ELSE Rows(d, q2, data)

(* the call run from its start to its end with no other call in between *)
UserRegister(d, data) ==
  UserRegisterChecked(d, data, UserCheckQuery(data), UserInsertQuery(data),
                      DbQuery(d, UserCheckSql, <<GetProp(data, "username")>>))

UserAuthenticateSql ==
  "SELECT u.username AS \"username\", password, first_name AS \"firstName\","
    \o " last_name AS \"lastName\", email, is_admin AS \"isAdmin\","
    \o " json_agg(job_id) AS \"jobs\""
    \o " FROM users AS u JOIN applications AS a ON (u.username = a.username)"
    \o " WHERE u.username = $1 GROUP BY u.username"

(* bcrypt.compare(password, hash): the hash is one of this password *)
BcryptCompare(password, hash) == hash = BcryptHash(password)

(* delete user.password *)
WithoutPassword(user) == [f \in DOMAIN user \ {"password"} |-> user[f]]

(* const user = result.rows[0] and what follows *)
UserAuthenticateResult(d, password, q, result) ==
  IF result.err # "" THEN Run(result.err, {}, <<q>>, d, <<>>)
  ELSE IF \E user \in result.rows : BcryptCompare(password, user.password)
    THEN Run("", {WithoutPassword(user) : user \in result.rows}, <<q>>, d, <<>>)
  ELSE Run("UnauthorizedError", {}, <<q>>, d, <<>>)

UserAuthenticateQuery(d, password, q) ==
  UserAuthenticateResult(d, password, q, DbQuery(d, q.text, q.params))

UserAuthenticate(d, username, password) ==
  UserAuthenticateQuery(d, password, Query(UserAuthenticateSql, <<username>>))

UserJobCheckSql == "SELECT id FROM jobs WHERE id = $1"

UserApplySql == "INSERT INTO applications (job_id, username) VALUES ($1, $2)"

UserApplyInserted(q1, q2, q3, result) ==
  Run(result.err, {}, <<q1, q2, q3>>, result.db, <<>>)

UserApplyChecked(d, q1, q2, q3, jobCheck, userCheck) ==
  IF jobCheck.err # "" THEN Run(jobCheck.err, {}, <<q1>>, d, <<>>)
  ELSE IF jobCheck.rows = {} THEN Run("NotFoundError", {}, <<q1>>, d, <<>>)
  ELSE IF userCheck.err # "" THEN Run(userCheck.err, {}, <<q1, q2>>, d, <<>>)
  ELSE IF userCheck.rows = {} THEN Run("NotFoundError", {}, <<q1, q2>>, d, <<>>)
  ELSE UserApplyInserted(q1, q2, q3, DbQuery(d, q3.text, q3.params))

UserApplyQueries(d, q1, q2, q3) ==
  UserApplyChecked(d, q1, q2, q3, DbQuery(d, q1.text, q1.params),
                   DbQuery(d, q2.text, q2.params))

UserApplyToJob(d, username, jobId) ==
  UserApplyQueries(d, Query(UserJobCheckSql, <<jobId>>), Query(UserCheckSql, <<username>>),
                   Query(UserApplySql, <<jobId, username>>))

UserRemoveSql == "DELETE FROM users WHERE username = $1 RETURNING username"

UserRemove(d, username) ==
  Gone(DbQuery(d, UserRemoveSql, <<username>>), Query(UserRemoveSql, <<username>>), d)

----------------------------------------------------------------------------
(* The searches.  Each builds a list of predicates and the list of the     *)
(* values they bind.                                                       *)

Clause(filters, parameters) == [filters |-> filters, parameters |-> parameters]

(* a variant that writes the value into the predicate *)
PushEmbedded(c, lhs, value) ==
  Clause(Append(c.filters, lhs \o JsToString(value)), Append(c.parameters, value))

(* parameters.push(value); filters.push(`${lhs}$${parameters.length}`) *)
PushBound(c, lhs, value) ==
  Clause(Append(c.filters, lhs \o "$" \o ToString(Len(c.parameters) + 1)),
         Append(c.parameters, value))

(* filters.push(literal) *)
PushLiteral(c, literal) == Clause(Append(c.filters, literal), c.parameters)

(* `%${value}%` *)
Wildcard(value) == Str("%" \o JsToString(value) \o "%")

(* models/company.js *)
(* a variant without the check of the range *)
CompanyRangeUnchecked(searchCriteria) == FALSE

CompanyRangeError(searchCriteria) ==
  /\ GetProp(searchCriteria, "minEmployees") # Undefined
  /\ GetProp(searchCriteria, "maxEmployees") # Undefined
  /\ JsGreater(GetProp(searchCriteria, "minEmployees"),
               GetProp(searchCriteria, "maxEmployees"))

CompanyMin(c, minEmployees) ==
  IF minEmployees # Undefined THEN PushBound(c, "num_employees >= ", minEmployees) ELSE c

CompanyMax(c, maxEmployees) ==
  IF maxEmployees # Undefined THEN PushBound(c, "num_employees <= ", maxEmployees) ELSE c

CompanyName(c, name) ==
  IF Truthy(name) THEN PushBound(c, "name ILIKE ", Wildcard(name)) ELSE c

RECURSIVE CompanyFiltersFrom(_, _, _)
CompanyFiltersFrom(searchCriteria, i, c) ==
  IF i > Len(searchCriteria) THEN c
  ELSE CompanyFiltersFrom(searchCriteria, i + 1,
         CASE searchCriteria[i].k = "minEmployees" -> CompanyMin(c, searchCriteria[i].v)
           [] searchCriteria[i].k = "maxEmployees" -> CompanyMax(c, searchCriteria[i].v)
           [] searchCriteria[i].k = "name" -> CompanyName(c, searchCriteria[i].v)
           [] OTHER -> c)

(* a variant that takes the filters in the order of the caller's map *)
CompanyFiltersInMapOrder(searchCriteria) ==
  CompanyFiltersFrom(searchCriteria, 1, Clause(<<>>, <<>>))

CompanyFilters(searchCriteria) ==
  CompanyName(CompanyMax(CompanyMin(Clause(<<>>, <<>>),
                                    GetProp(searchCriteria, "minEmployees")),
                         GetProp(searchCriteria, "maxEmployees")),
              GetProp(searchCriteria, "name"))

CompanyFindAllSql(filters) ==
  "SELECT handle, name, description, num_employees AS \"numEmployees\","
    \o " logo_url AS \"logoUrl\" FROM companies"
    \o (IF Len(filters) > 0 THEN " WHERE " \o Join(filters, " AND ") ELSE "")
    \o " ORDER BY name"

(* db.query(querySql, parameters) *)
CompanyFindAllQuery(c) == Query(CompanyFindAllSql(c.filters), c.parameters)

CompanyFindAllBuilt(d, searchCriteria, c) ==
  Rows(d, CompanyFindAllQuery(c), searchCriteria)

CompanyFindAll(d, searchCriteria) ==
  IF CompanyRangeError(searchCriteria)
    THEN Run("BadRequestError", {}, <<>>, d, searchCriteria)
    ELSE CompanyFindAllBuilt(d, searchCriteria, CompanyFilters(searchCriteria))

(* models/job.js, the Job model with filters in findAll *)
JobMinSalary(c, minSalary) ==
  IF minSalary # Undefined THEN PushBound(c, "salary >= ", minSalary) ELSE c

JobHasEquity(c, hasEquity) ==
  IF Truthy(hasEquity) THEN PushLiteral(c, "equity > 0") ELSE c

JobTitle(c, title) ==
  IF Truthy(title) THEN PushBound(c, "title ILIKE ", Wildcard(title)) ELSE c

JobFilters(filters) ==
  JobTitle(JobHasEquity(JobMinSalary(Clause(<<>>, <<>>), GetProp(filters, "minSalary")),
                        GetProp(filters, "hasEquity")),
           GetProp(filters, "title"))

JobFindAllSql(conditions) ==
  "SELECT j.id, j.title, j.salary, j.equity, j.company_handle AS \"companyHandle\","
    \o " c.name AS \"companyName\""
    \o " FROM jobs j LEFT JOIN companies AS c ON c.handle = j.company_handle"
    \o (IF Len(conditions) > 0 THEN " WHERE " \o Join(conditions, " AND ") ELSE "")
    \o " ORDER BY title"

(* db.query(query, values) *)
JobFindAllQuery(c) == Query(JobFindAllSql(c.filters), c.parameters)

JobFindAllBuilt(d, filters, c) == Rows(d, JobFindAllQuery(c), filters)

JobFindAll(d, filters) == JobFindAllBuilt(d, filters, JobFilters(filters))

(* models/job.js, the Job model with searchAll *)
JobSearchAllSql(finalWhereClause) ==
  "SELECT id, title, salary, equity, company_handle AS \"companyHandle\""
    \o " FROM jobs WHERE " \o finalWhereClause \o " ORDER BY id"

(* delete fields.hasEquity, then the clause of what is left.  helpers/sql.js *)
(* exports sqlForPartialUpdate alone: the sqlForQuery that searchAll       *)
(* imports from it is undefined, and the call of it throws                 *)
JobSearchAllDeleted(d, fields, equityClause) ==
  IF Len(ObjectKeys(fields)) = 0
    THEN Rows(d, Query(JobSearchAllSql(equityClause), <<>>), fields)
    ELSE Run("TypeError", {}, <<>>, d, fields)

JobSearchAll(d, fields) ==
  JobSearchAllDeleted(d, DeleteProp(fields, "hasEquity"),
                      IF Truthy(GetProp(fields, "hasEquity")) THEN "equity > 0" ELSE "")

----------------------------------------------------------------------------
(* middleware/auth.js.  A token is text: what jwt.sign makes of a payload  *)
(* and a key, the signature standing for the key it was made with.  A      *)
(* middleware is called with req, res and next; what it did is the         *)
(* res.locals it leaves, the arguments of its calls of next in order ("" a *)
(* call with none, else the class of the error) and the class of the       *)
(* error it threw ("" when it returned).  next returns, or throws an Error *)
(* whenever it is called.                                                  *)

SECRET_KEY == "secret"

(* jwt.sign({ username, isAdmin }, key), issued at iat *)
Sign(username, isAdmin, iat, key) ==
  username \o "." \o (IF isAdmin THEN "true" ELSE "false") \o "." \o iat \o "." \o key

Verification(ok, payload) == [ok |-> ok, payload |-> payload]

Payload(parts) ==
  Object(<<Prop("username", Str(parts[1])), Prop("isAdmin", Bool(parts[2] = "true")),
           Prop("iat", Num(ParseNat(parts[3])))>>)

Verified(parts, key) ==
  IF Len(parts) = 4 /\ parts[2] \in {"true", "false"} /\ IsNat(parts[3]) /\ parts[4] = key
    THEN Verification(TRUE, Payload(parts))
    ELSE Verification(FALSE, Undefined)

DecodeParts(parts, key) ==
  IF Len(parts) = 4 THEN Verified(SubSeq(parts, 1, 3) \o <<key>>, key)
  ELSE Verification(FALSE, Undefined)

(* a variant that takes the payload of a token whatever its signature *)
Decode(token, key) == DecodeParts(Split(token, "."), key)

(* jwt.verify(token, key): the payload, or ok = FALSE where it throws *)
Verify(token, key) == Verified(Split(token, "."), key)

RECURSIVE TrimStart(_)
TrimStart(s) == IF Len(s) > 0 /\ CharAt(s, 1) = " " THEN TrimStart(Tail(s)) ELSE s

RECURSIVE TrimEnd(_)
TrimEnd(s) ==
  IF Len(s) > 0 /\ CharAt(s, Len(s)) = " " THEN TrimEnd(SubSeq(s, 1, Len(s) - 1)) ELSE s

(* authHeader.replace(/^[Bb]earer /, "").trim() *)
Token(authHeader) ==
  IF StartsWithAt(authHeader, "Bearer ", 1) \/ StartsWithAt(authHeader, "bearer ", 1)
    THEN TrimEnd(TrimStart(SubSeq(authHeader, 8, Len(authHeader))))
    ELSE TrimEnd(TrimStart(authHeader))

Did(locals, passed, thrown) == [locals |-> locals, passed |-> passed, thrown |-> thrown]

(* next(err) where nothing catches what next throws *)
Pass(locals, err, throws) == Did(locals, <<err>>, IF throws THEN "Error" ELSE "")

(* try { return next(); } catch (err) { return next(); } *)
PassOrPass(locals, throws) ==
  IF throws THEN Did(locals, <<"", "">>, "Error") ELSE Did(locals, <<"">>, "")

(* try { return next(); } catch (err) { return next(err); } *)
PassOrPassError(locals, throws) ==
  IF throws THEN Did(locals, <<"", "Error">>, "Error") ELSE Did(locals, <<"">>, "")

authenticateJWTVerified(rq, rs, throws, v) ==
  IF v.ok THEN PassOrPass(SetProp(rs.locals, "user", v.payload), throws)
  ELSE Pass(rs.locals, "", throws)

authenticateJWT(rq, rs, throws) ==
  IF ~rq.hasHeaders THEN Pass(rs.locals, "", throws)
  ELSE IF ~Truthy(GetProp(rq.headers, "authorization")) THEN PassOrPass(rs.locals, throws)
  ELSE authenticateJWTVerified(rq, rs, throws,
                               Verify(Token(GetProp(rq.headers, "authorization").s),
                                      SECRET_KEY))

ensureLoggedIn(rq, rs, throws) ==
  IF ~Truthy(GetProp(rs.locals, "user")) THEN Pass(rs.locals, "UnauthorizedError", throws)
  ELSE PassOrPassError(rs.locals, throws)

(* a variant that tells the two cases apart *)
ensureAdminForbidding(rq, rs, throws) ==
  IF ~Truthy(GetProp(rs.locals, "user")) THEN Pass(rs.locals, "UnauthorizedError", throws)
  ELSE IF ~Truthy(GetProp(GetProp(rs.locals, "user").a, "isAdmin"))
    THEN Pass(rs.locals, "ForbiddenError", throws)
  ELSE Pass(rs.locals, "", throws)

(* a variant that asks for a user only *)
ensureAdminLoggedIn(rq, rs, throws) ==
  IF ~Truthy(GetProp(rs.locals, "user")) THEN Pass(rs.locals, "UnauthorizedError", throws)
  ELSE Pass(rs.locals, "", throws)

ensureAdmin(rq, rs, throws) ==
  IF \/ ~Truthy(GetProp(rs.locals, "user"))
     \/ ~Truthy(GetProp(GetProp(rs.locals, "user").a, "isAdmin"))
    THEN Pass(rs.locals, "UnauthorizedError", throws)
    ELSE Pass(rs.locals, "", throws)

(* a variant that asks for an admin who is the user of the route *)
ensureAdminAndSelf(rq, rs, throws) ==
  IF ~Truthy(GetProp(rs.locals, "user")) THEN Pass(rs.locals, "UnauthorizedError", throws)
  ELSE IF \/ ~Truthy(GetProp(GetProp(rs.locals, "user").a, "isAdmin"))
          \/ GetProp(GetProp(rs.locals, "user").a, "username") # GetProp(rq.params, "username")
    THEN Pass(rs.locals, "ForbiddenError", throws)
  ELSE PassOrPassError(rs.locals, throws)

ensureAdminOrSelf(rq, rs, throws) ==
  IF ~Truthy(GetProp(rs.locals, "user")) THEN Pass(rs.locals, "UnauthorizedError", throws)
  ELSE IF /\ ~Truthy(GetProp(GetProp(rs.locals, "user").a, "isAdmin"))
          /\ GetProp(GetProp(rs.locals, "user").a, "username") # GetProp(rq.params, "username")
    THEN Pass(rs.locals, "ForbiddenError", throws)
  ELSE PassOrPassError(rs.locals, throws)

----------------------------------------------------------------------------
(* The state: the store, the call in flight and how it ended.  A caller    *)
(* issues a call (pc "called"), the method runs against the store (pc      *)
(* "settled": the promise is fulfilled or rejected), and the caller takes  *)
(* the outcome (pc "idle").  Calls in flight at the same time are in       *)
(* procs, each at the await it has reached.  A request on its way through  *)
(* the middleware is req and res, and ran is what each middleware it has   *)
(* passed did.                                                             *)

VARIABLES db, pc, call, out, updates, procs, req, res, ran

vars == <<db, pc, call, out, updates, procs, req, res, ran>>

(* the call in flight of a single caller *)
callVars == <<pc, call, out, updates>>

(* the request in the middleware *)
gateVars == <<req, res, ran>>

(* the most properties a caller's map carries *)
MaxProps == 3

(* the most update calls issued *)
MaxUpdates == 1

(* the objects of at most n properties drawn from props, in every          *)
(* insertion order                                                         *)
Objects(props, n) ==
  {o \in UNION {[1..k -> props] : k \in 0..n} :
     \A i, j \in 1..Len(o) : i # j => o[i].k # o[j].k}

Company(handle, name, description, numEmployees, logoUrl) ==
  [handle |-> Str(handle), name |-> Str(name), description |-> Str(description),
   num_employees |-> numEmployees, logo_url |-> logoUrl]

Job(id, title, salary, equity, companyHandle) ==
  [id |-> Num(id), title |-> Str(title), salary |-> salary, equity |-> equity,
   company_handle |-> Str(companyHandle)]

User(username, password, firstName, lastName, email, isAdmin) ==
  [username |-> Str(username), password |-> BcryptHash(Str(password)),
   first_name |-> Str(firstName), last_name |-> Str(lastName), email |-> Str(email),
   is_admin |-> Bool(isAdmin)]

(* the rows the tests start from; equity, a NUMERIC, is kept in hundredths *)
InitDb ==
  [companies |-> {Company("c1", "C1", "Desc1", Num(1), Str("http://c1.img")),
                  Company("c2", "C2", "Desc2", Num(2), Str("http://c2.img")),
                  Company("c3", "C3", "Desc3", Num(3), Str("http://c3.img"))},
   jobs |-> {Job(1, "Engineer", Num(50000), Num(0), "c1"),
             Job(2, "Engineering", Num(60000), Num(10), "c2"),
             Job(3, "Manager", Null, Null, "c3")},
   users |-> {User("u1", "password1", "U1F", "U1L", "u1@email.com", FALSE)},
   applications |-> {}]

Call(op, key, arg, jsToSql) == [op |-> op, key |-> key, arg |-> arg, jsToSql |-> jsToSql]

NoCall == Call("", Null, <<>>, <<>>)

NoBuilt == Built("", "", <<>>)

(* how a call ended: its Run (the store apart) and, for a call of the      *)
(* builder itself, what it returned                                        *)
Out(run, built) ==
  [err |-> run.err, rows |-> run.rows, queries |-> run.queries, after |-> run.after,
   built |-> built]

NoOut == Out(Run("", {}, <<>>, InitDb, <<>>), NoBuilt)

(* a call in flight: the method, its argument, the await it has reached    *)
(* (pc), what its last query resolved to, and the error the call ended     *)
(* with or the rows it returned                                            *)
Proc(op, arg, at, result, err, rows) ==
  [op |-> op, arg |-> arg, pc |-> at, result |-> result, err |-> err, rows |-> rows]

NoProc == Proc("", <<>>, "idle", [err |-> "", rows |-> {}], "", {})

(* the most calls in flight at the same time *)
MaxCalls == 2

NoProcs == [p \in 1..MaxCalls |-> NoProc]

(* req and res of a request: req.headers, req.params and res.locals are    *)
(* objects, req.headers is undefined where the request has none            *)
Req(hasHeaders, headers, params) ==
  [hasHeaders |-> hasHeaders, headers |-> headers, params |-> params]

Res(locals) == [locals |-> locals]

NoReq == Req(FALSE, <<>>, <<>>)

NoRes == Res(<<>>)

Init ==
  /\ db = InitDb
  /\ pc = "idle"
  /\ call = NoCall
  /\ out = NoOut
  /\ updates = 0
  /\ procs = NoProcs
  /\ req = NoReq
  /\ res = NoRes
  /\ ran = <<>>

UpdateData ==
  {Prop("firstName", Str("Joe")), Prop("age", Num(27)), Prop("age", Null),
   Prop("constructor", Str("x"))}

FieldMaps ==
  {<<>>,
   <<Prop("firstName", Str("first_name"))>>,
   <<Prop("firstName", Str(""))>>,
   <<Prop("firstName", Str("first_name")), Prop("lastName", Str("last_name")),
     Prop("isAdmin", Str("is_admin"))>>,
   <<Prop("age", Str("years")), Prop("firstName", Str("first_name"))>>}

JobIds == {Num(1), Num(9999)}

JobData == {Prop("title", Str("Lead")), Prop("salary", Null)}

Handles == {Str("c1"), Str("nope")}

CompanyData == {Prop("name", Str("New")), Prop("numEmployees", Num(10))}

Usernames == {Str("u1"), Str("nope")}

UserData == {Prop("firstName", Str("NewF")), Prop("password", Str("new"))}

CompanyCriteria ==
  {Prop("minEmployees", Num(2)), Prop("maxEmployees", Num(1)),
   Prop("maxEmployees", Num(2)), Prop("name", Str("c1")), Prop("name", Str("")),
   Prop("sort", Str("name"))}

JobCriteria ==
  {Prop("minSalary", Num(60000)), Prop("hasEquity", Bool(TRUE)),
   Prop("hasEquity", Bool(FALSE)), Prop("title", Str("eng")), Prop("title", Str("e_g")),
   Prop("sort", Str("title"))}

UpdateCalls ==
  {Call("Job.update", id, data, <<>>) :
     id \in JobIds, data \in Objects(JobData, MaxProps)}
  \cup {Call("Company.update", handle, data, <<>>) :
          handle \in Handles, data \in Objects(CompanyData, MaxProps)}
  \cup {Call("User.update", username, data, <<>>) :
          username \in Usernames, data \in Objects(UserData, MaxProps)}

OtherCalls ==
  {Call("sqlForPartialUpdate", Null, dataToUpdate, jsToSql) :
     dataToUpdate \in Objects(UpdateData, MaxProps), jsToSql \in FieldMaps}
  \cup {Call("Company.findAll", Null, searchCriteria, <<>>) :
          searchCriteria \in Objects(CompanyCriteria, MaxProps)}
  \cup {Call("Job.findAll", Null, filters, <<>>) :
          filters \in Objects(JobCriteria, MaxProps)}
  \cup {Call("Job.searchAll", Null, fields, <<>>) :
          fields \in Objects(JobCriteria, MaxProps)}

(* a caller issues a call *)
Issue ==
  /\ pc = "idle"
  /\ \/ \E c \in OtherCalls : call' = c /\ updates' = updates
     \/ /\ updates < MaxUpdates
        /\ \E c \in UpdateCalls : call' = c /\ updates' = updates + 1
  /\ pc' = "called"
  /\ UNCHANGED <<db, out, procs, gateVars>>

(* the call in flight runs to its end *)
Settle(op, run, built) ==
  /\ pc = "called"
  /\ call.op = op
  /\ db' = run.db
  /\ out' = Out(run, built)
  /\ pc' = "settled"
  /\ UNCHANGED <<call, updates, procs, gateVars>>

RunSqlForPartialUpdate ==
  LET b == sqlForPartialUpdate(call.arg, call.jsToSql)
  IN Settle("sqlForPartialUpdate", Run(b.err, {}, <<>>, db, call.arg), b)

RunJobUpdate == Settle("Job.update", JobUpdate(db, call.key, call.arg), NoBuilt)

RunCompanyUpdate ==
  Settle("Company.update", CompanyUpdate(db, call.key, call.arg), NoBuilt)

RunUserUpdate == Settle("User.update", UserUpdate(db, call.key, call.arg), NoBuilt)

RunCompanyFindAll == Settle("Company.findAll", CompanyFindAll(db, call.arg), NoBuilt)

RunJobFindAll == Settle("Job.findAll", JobFindAll(db, call.arg), NoBuilt)

RunJobSearchAll == Settle("Job.searchAll", JobSearchAll(db, call.arg), NoBuilt)

(* the caller takes the outcome *)
Return ==
  /\ pc = "settled"
  /\ pc' = "idle"
  /\ call' = NoCall
  /\ out' = NoOut
  /\ UNCHANGED <<db, updates, procs, gateVars>>

Next ==
  \/ Issue
  \/ RunSqlForPartialUpdate
  \/ RunJobUpdate
  \/ RunCompanyUpdate
  \/ RunUserUpdate
  \/ RunCompanyFindAll
  \/ RunJobFindAll
  \/ RunJobSearchAll
  \/ Return

Spec == Init /\ [][Next]_vars

----------------------------------------------------------------------------
(* Calls by key: get, update and remove of a job, a company and a user,    *)
(* one after another.                                                      *)

NewCompany(handle) ==
  <<Prop("handle", Str(handle)), Prop("name", Str("New")),
    Prop("description", Str("New Description")), Prop("numEmployees", Num(1)),
    Prop("logoUrl", Str("http://new.img"))>>

NewUser(username) ==
  <<Prop("username", Str(username)), Prop("password", Str("password")),
    Prop("firstName", Str("Test")), Prop("lastName", Str("Tester")),
    Prop("email", Str("test@test.com")), Prop("isAdmin", Bool(FALSE))>>

GetCalls ==
  {Call("Job.get", id, <<>>, <<>>) : id \in JobIds}
  \cup {Call("Company.get", handle, <<>>, <<>>) : handle \in Handles}
  \cup {Call("User.get", username, <<>>, <<>>) : username \in Usernames}

RemoveCalls ==
  {Call("Job.remove", id, <<>>, <<>>) : id \in JobIds}
  \cup {Call("Company.remove", handle, <<>>, <<>>) : handle \in Handles}
  \cup {Call("User.remove", username, <<>>, <<>>) : username \in Usernames}

Passwords == {Str("password1"), Str("password"), Str("wrong")}

(* calls of the user model by username; key is the first argument of a     *)
(* call, arg holds the second under its name                               *)
AccountCalls ==
  {Call("User.register", Str(username), NewUser(username), <<>>) :
     username \in {"new", "u1"}}
  \cup {Call("User.applyToJob", username, <<Prop("jobId", jobId)>>, <<>>) :
          username \in Usernames, jobId \in JobIds}

AuthenticateCalls ==
  {Call("User.authenticate", username, <<Prop("password", password)>>, <<>>) :
     username \in Usernames \cup {Str("new")}, password \in Passwords}

(* a caller issues a call by key *)
IssueByKey ==
  /\ pc = "idle"
  /\ \/ \E c \in GetCalls \cup AuthenticateCalls : call' = c /\ updates' = updates
     \/ /\ updates < MaxUpdates
        /\ \E c \in RemoveCalls \cup UpdateCalls \cup AccountCalls :
             call' = c /\ updates' = updates + 1
  /\ pc' = "called"
  /\ UNCHANGED <<db, out, procs, gateVars>>

RunJobGet == Settle("Job.get", JobGet(db, call.key), NoBuilt)

RunCompanyGet == Settle("Company.get", CompanyGet(db, call.key), NoBuilt)

RunUserGet == Settle("User.get", UserGet(db, call.key), NoBuilt)

RunJobRemove == Settle("Job.remove", JobRemove(db, call.key), NoBuilt)

RunCompanyRemove == Settle("Company.remove", CompanyRemove(db, call.key), NoBuilt)

RunUserRemove == Settle("User.remove", UserRemove(db, call.key), NoBuilt)

RunUserRegister == Settle("User.register", UserRegister(db, call.arg), NoBuilt)

RunUserApplyToJob ==
  Settle("User.applyToJob", UserApplyToJob(db, call.key, GetProp(call.arg, "jobId")),
         NoBuilt)

RunUserAuthenticate ==
  Settle("User.authenticate",
         UserAuthenticate(db, call.key, GetProp(call.arg, "password")), NoBuilt)

ByKeyNext ==
  \/ IssueByKey
  \/ RunUserRegister
  \/ RunUserApplyToJob
  \/ RunUserAuthenticate
  \/ RunJobGet
  \/ RunCompanyGet
  \/ RunUserGet
  \/ RunJobUpdate
  \/ RunCompanyUpdate
  \/ RunUserUpdate
  \/ RunJobRemove
  \/ RunCompanyRemove
  \/ RunUserRemove
  \/ Return

ByKeySpec == Init /\ [][ByKeyNext]_vars

----------------------------------------------------------------------------
(* Calls of Company.create and User.register in flight at the same time.   *)
(* A call runs from one await to the next in one step: the query it awaits *)
(* is answered by the store, and what follows the await runs up to the     *)
(* next query.                                                             *)

CreateCalls ==
  {Call("Company.create", Str(handle), NewCompany(handle), <<>>) : handle \in {"new", "c1"}}
  \cup {Call("User.register", Str(username), NewUser(username), <<>>) :
          username \in {"new", "u1"}}

(* what a call keeps of the answer to a query *)
Answer(result) == [err |-> result.err, rows |-> result.rows]

(* a caller issues a call while others are in flight *)
Begin(p) ==
  /\ procs[p].pc = "idle"
  /\ \E c \in CreateCalls :
       procs' = [procs EXCEPT ![p] = Proc(c.op, c.arg, "called", Answer(Result("", {}, db)),
                                          "", {})]
  /\ UNCHANGED <<db, callVars, gateVars>>

(* the call of p has its first query answered *)
Checked(p, op, duplicateCheck) ==
  /\ procs[p].pc = "called"
  /\ procs[p].op = op
  /\ procs' = [procs EXCEPT ![p].pc = "checked", ![p].result = Answer(duplicateCheck)]
  /\ db' = duplicateCheck.db
  /\ UNCHANGED <<callVars, gateVars>>

(* the call of p runs from its first await to its end *)
Ended(p, op, run) ==
  /\ procs[p].pc = "checked"
  /\ procs[p].op = op
  /\ procs' = [procs EXCEPT ![p].pc = "settled", ![p].err = run.err, ![p].rows = run.rows]
  /\ db' = run.db
  /\ UNCHANGED <<callVars, gateVars>>

CompanyCreateCheck(p) ==
  Checked(p, "Company.create",
          DbQuery(db, CompanyCheckSql, <<GetProp(procs[p].arg, "handle")>>))

CompanyCreateInsert(p) ==
  Ended(p, "Company.create",
        CompanyCreateChecked(db, procs[p].arg, CompanyCheckQuery(procs[p].arg),
                             CompanyInsertQuery(procs[p].arg), procs[p].result))

UserRegisterCheck(p) ==
  Checked(p, "User.register",
          DbQuery(db, UserCheckSql, <<GetProp(procs[p].arg, "username")>>))

UserRegisterInsert(p) ==
  Ended(p, "User.register",
        UserRegisterChecked(db, procs[p].arg, UserCheckQuery(procs[p].arg),
                            UserInsertQuery(procs[p].arg), procs[p].result))

CreateNext ==
  \/ \E p \in 1..MaxCalls : Begin(p)
  \/ \E p \in 1..MaxCalls : CompanyCreateCheck(p)
  \/ \E p \in 1..MaxCalls : CompanyCreateInsert(p)
  \/ \E p \in 1..MaxCalls : UserRegisterCheck(p)
  \/ \E p \in 1..MaxCalls : UserRegisterInsert(p)

CreateSpec == Init /\ [][CreateNext]_vars

----------------------------------------------------------------------------
(* Calls of User.update and User.remove in flight at the same time, all    *)
(* for the user u1.  As above a call runs from one await to the next in    *)
(* one step; bcrypt.hash touches nothing that is shared, and its await     *)
(* runs in the step of the UPDATE that follows it.                         *)

RaceUsername == Str("u1")

RaceData ==
  {<<Prop("firstName", Str("NewF"))>>,
   <<Prop("firstName", Str("Other"))>>,
   <<Prop("lastName", Str("NewL")), Prop("isAdmin", Bool(TRUE))>>,
   <<Prop("password", Str("new")), Prop("email", Str("new@email.com"))>>}

RaceCalls ==
  {Call("User.update", RaceUsername, data, <<>>) : data \in RaceData}
  \cup {Call("User.remove", RaceUsername, <<>>, <<>>)}

(* a caller issues a call while others are in flight *)
BeginRace(p) ==
  /\ procs[p].pc = "idle"
  /\ \E c \in RaceCalls :
       procs' = [procs EXCEPT ![p] = Proc(c.op, c.arg, "called", Answer(Result("", {}, db)),
                                          "", {})]
  /\ UNCHANGED <<db, callVars, gateVars>>

(* the call of p moves on to the await at, or to its end with err, with    *)
(* result the answer of the UPDATE and rows what it has read or returns    *)
Step(p, op, from, at, result, err, rows, d) ==
  /\ procs[p].pc = from
  /\ procs[p].op = op
  /\ procs' = [procs EXCEPT ![p] = Proc(op, procs[p].arg, at, result, err, rows)]
  /\ db' = d
  /\ UNCHANGED <<callVars, gateVars>>

(* if (data.password) data.password = await bcrypt.hash(data.password, ...) *)
UserUpdatePassword(data) ==
  IF Truthy(GetProp(data, "password"))
    THEN SetProp(data, "password", BcryptHash(GetProp(data, "password")))
    ELSE data

(* const result = await db.query(querySql, [...values, username]) *)
UserUpdateWritten(d, username, b) ==
  IF b.err # "" THEN Result(b.err, {}, d)
  ELSE DbQuery(d, UserUpdateSql(b.setCols, VarIdx(b.values)), b.values \o <<username>>)

(* how a call goes on after a query: it throws what the store threw, or   *)
(* NotFoundError where the query gave no row, or moves on to the await at  *)
AfterQuery(result, at) ==
  IF result.err # "" \/ result.rows = {} THEN "settled" ELSE at

ErrorOf(result) ==
  IF result.err # "" THEN result.err
  ELSE IF result.rows = {} THEN "NotFoundError"
  ELSE ""

(* if (!result.rows[0]) throw new NotFoundError(...); User.get(username) *)
UserUpdateWrote(p, result) ==
  Step(p, "User.update", "called", AfterQuery(result, "updated"), Answer(result),
       ErrorOf(result), {}, result.db)

UserUpdateWrite(p) ==
  UserUpdateWrote(p, UserUpdateWritten(db, RaceUsername,
                                       sqlForPartialUpdate(UserUpdatePassword(procs[p].arg),
                                                           UserJsToSql)))

(* User.get: const user = userRes.rows[0]; if (!user) throw NotFoundError  *)
UserUpdateUser(p, userRes) ==
  Step(p, "User.update", "updated", AfterQuery(userRes, "read"), procs[p].result,
       ErrorOf(userRes), IF userRes.err = "" THEN userRes.rows ELSE {}, userRes.db)

UserUpdateRead(p) == UserUpdateUser(p, DbQuery(db, UserGetSql, <<RaceUsername>>))

(* User.get: user.jobs = userJobsRes.rows.map(a => a.job_id); return user  *)
UserUpdateReturn(p, userJobsRes) ==
  Step(p, "User.update", "read", "settled", procs[p].result, userJobsRes.err,
       IF userJobsRes.err # "" THEN {}
       ELSE {WithJobs(user, userJobsRes) : user \in procs[p].rows},
       userJobsRes.db)

UserUpdateJobs(p) == UserUpdateReturn(p, DbQuery(db, UserJobsSql, <<RaceUsername>>))

UserRemoveRan(p, run) ==
  Step(p, "User.remove", "called", "settled", procs[p].result, run.err, run.rows, run.db)

UserRemoveDelete(p) == UserRemoveRan(p, UserRemove(db, RaceUsername))

RaceNext ==
  \/ \E p \in 1..MaxCalls : BeginRace(p)
  \/ \E p \in 1..MaxCalls : UserUpdateWrite(p)
  \/ \E p \in 1..MaxCalls : UserUpdateRead(p)
  \/ \E p \in 1..MaxCalls : UserUpdateJobs(p)
  \/ \E p \in 1..MaxCalls : UserRemoveDelete(p)

RaceSpec == Init /\ [][RaceNext]_vars

----------------------------------------------------------------------------
(* Requests through the middleware.  A request arrives with its headers    *)
(* and route parameters and with what res.locals holds by then; the        *)
(* middleware of its route run one after another for as long as each       *)
(* passes it on without error.                                             *)

(* the most middleware a request runs through *)
MaxChain == 2

testJwt == Sign("test", FALSE, "1", SECRET_KEY)

adminJwt == Sign("admin", TRUE, "1", SECRET_KEY)

badJwt == Sign("test", FALSE, "1", "wrong")

AuthHeaders ==
  {"Bearer " \o testJwt, "bearer " \o adminJwt, "Bearer " \o badJwt, testJwt,
   "Bearer junk", ""}

Params == {<<>>, <<Prop("username", Str("test"))>>, <<Prop("username", Str("wrong"))>>}

Requests ==
  {Req(FALSE, <<>>, params) : params \in Params}
  \cup {Req(TRUE, <<Prop("authorization", Str(h))>>, params) :
          h \in AuthHeaders, params \in Params}

UserOf(username, isAdmin) ==
  Object(<<Prop("username", Str(username)), Prop("isAdmin", Bool(isAdmin))>>)

Locals ==
  {<<>>, <<Prop("user", UserOf("test", FALSE))>>, <<Prop("user", UserOf("admin", TRUE))>>}

(* what a middleware did with the request: res.locals as it found it,      *)
(* whether next throws, and what it did                                    *)
Ran(mw, before, throws, did) ==
  [mw |-> mw, before |-> before, throws |-> throws, after |-> did.locals,
   passed |-> did.passed, thrown |-> did.thrown]

(* a request arrives *)
Arrive ==
  /\ \E r \in Requests, l \in Locals : req' = r /\ res' = Res(l)
  /\ ran' = <<>>
  /\ UNCHANGED <<db, callVars, procs>>

(* the request has been passed on without error so far *)
PassedOn ==
  \A i \in 1..Len(ran) :
    ran[i].thrown = "" /\ \A k \in 1..Len(ran[i].passed) : ran[i].passed[k] = ""

(* the next middleware of the route is called *)
Invoke(mw, throws, did) ==
  /\ Len(ran) < MaxChain
  /\ PassedOn
  /\ res' = Res(did.locals)
  /\ ran' = Append(ran, Ran(mw, res.locals, throws, did))
  /\ UNCHANGED <<req, db, callVars, procs>>

RunAuthenticateJWT ==
  \E throws \in BOOLEAN : Invoke("authenticateJWT", throws, authenticateJWT(req, res, throws))

RunEnsureLoggedIn ==
  \E throws \in BOOLEAN : Invoke("ensureLoggedIn", throws, ensureLoggedIn(req, res, throws))

RunEnsureAdmin ==
  \E throws \in BOOLEAN : Invoke("ensureAdmin", throws, ensureAdmin(req, res, throws))

RunEnsureAdminOrSelf ==
  \E throws \in BOOLEAN :
    Invoke("ensureAdminOrSelf", throws, ensureAdminOrSelf(req, res, throws))

GateNext ==
  \/ Arrive
  \/ RunAuthenticateJWT
  \/ RunEnsureLoggedIn
  \/ RunEnsureAdmin
  \/ RunEnsureAdminOrSelf

GateSpec == Init /\ [][GateNext]_vars

----------------------------------------------------------------------------
(* What the properties below read of a state.                              *)

Settled(op) == pc = "settled" /\ call.op = op

Updates == {"Job.update", "Company.update", "User.update"}

Searches == {"Company.findAll", "Job.findAll", "Job.searchAll"}

Texts(queries) == [i \in 1..Len(queries) |-> queries[i].text]

UpTo(n) == [i \in 1..n |-> i]

(* the tokens of the clause the builder returned *)
Tokens == Split(out.built.setCols, ", ")

(* the entry a map holds for a key as its own *)
Own(o, k) == o[CHOOSE i \in 1..Len(o) : o[i].k = k].v

----------------------------------------------------------------------------
(* C1: for every non-empty dataToUpdate and every jsToSql,                 *)
(* sqlForPartialUpdate returns: setCols is exactly one assignment token    *)
(* "<column>"=$i per key, comma-separated, the i-th token carrying the     *)
(* placeholder $i; values has one value per key, the i-th the value of the *)
(* i-th key as it was given, null included.                                *)
C1_TokensAndValues ==
  (Settled("sqlForPartialUpdate") /\ Len(call.arg) > 0) =>
    /\ out.err = ""
    /\ Len(Tokens) = Len(call.arg)
    /\ Placeholders(out.built.setCols) = UpTo(Len(call.arg))
    /\ \A i \in 1..Len(call.arg) :
         /\ StartsWithAt(Tokens[i], "\"", 1)
         /\ EndsWith(Tokens[i], "\"=$" \o ToString(i))
         /\ Placeholders(Tokens[i]) = <<i>>
    /\ Len(out.built.values) = Len(call.arg)
    /\ \A i \in 1..Len(call.arg) : out.built.values[i] = call.arg[i].v

(* C1: the builder has returned for three keys, one of them set to null *)
C1_Witness ==
  /\ Settled("sqlForPartialUpdate")
  /\ Len(call.arg) = 3
  /\ \E i \in 1..3 : call.arg[i].v = Null
  /\ out.err = ""
  /\ Placeholders(out.built.setCols) = <<1, 2, 3>>
  /\ \E i \in 1..3 : out.built.values[i] = Null

(* C2: a call of sqlForPartialUpdate, Job.update, Company.update or        *)
(* User.update with empty data ends with BadRequestError; no clause text   *)
(* has been produced, no query has been handed to the store and the store  *)
(* is as it was.                                                           *)
C2_EmptyDataRejected ==
  [][(/\ pc = "called"
      /\ pc' = "settled"
      /\ call.op \in Updates \cup {"sqlForPartialUpdate"}
      /\ Len(call.arg) = 0)
     => (/\ out'.err = "BadRequestError"
         /\ out'.built.setCols = ""
         /\ out'.queries = <<>>
         /\ db' = db)]_vars

(* C2: Company.update has ended for empty data *)
C2_Witness ==
  /\ Settled("Company.update")
  /\ call.arg = <<>>
  /\ out.err = "BadRequestError"
  /\ out.queries = <<>>

(* C3: the column name of each token is the entry jsToSql has for the key  *)
(* when it has one, whatever that entry is, and the key itself when it has *)
(* none.                                                                   *)
C3_ColumnResolution ==
  (Settled("sqlForPartialUpdate") /\ out.err = "") =>
    \A i \in 1..Len(call.arg) :
      Tokens[i] = "\""
                    \o (IF HasOwn(call.jsToSql, call.arg[i].k)
                          THEN JsToString(Own(call.jsToSql, call.arg[i].k))
                          ELSE call.arg[i].k)
                    \o "\"=$" \o ToString(i)

(* the column an update writes for a key of its data *)
Column(op, k) ==
  CASE op = "Company.update" /\ k = "numEmployees" -> "num_employees"
    [] op = "Company.update" /\ k = "logoUrl" -> "logo_url"
    [] op = "User.update" /\ k = "firstName" -> "first_name"
    [] op = "User.update" /\ k = "lastName" -> "last_name"
    [] op = "User.update" /\ k = "isAdmin" -> "is_admin"
    [] OTHER -> k

(* the column of the key an update finds its row by *)
KeyColumn(op) ==
  CASE op = "Job.update" -> "id"
    [] op = "Company.update" -> "handle"
    [] op = "User.update" -> "username"

(* the predicate lhs$n is in the text of q, and $n binds value *)
Binds(q, lhs, value) ==
  /\ Contains(q.text, lhs \o "$")
  /\ q.params[ParseNat(SubSeq(q.text, IndexOf(q.text, lhs \o "$") + Len(lhs) + 1,
                              DigitsEnd(q.text, IndexOf(q.text, lhs \o "$") + Len(lhs) + 1)))]
       = value

(* C4: every (text, params) pair an update or a search hands to db.query   *)
(* has the placeholders $1..$n, left to right, n the length of params.     *)
(* In an update $i is assigned to the column of the i-th key of the data   *)
(* and params[i] is the value of that key, and the key of the row is       *)
(* compared with $(|data|+1) and is the last of params.  In a search the   *)
(* placeholder of each predicate binds the value of its filter.            *)
C4_PlaceholdersBindParameters ==
  (pc = "settled" /\ call.op \in Updates \cup Searches) =>
    /\ \A i \in 1..Len(out.queries) :
         Placeholders(out.queries[i].text) = UpTo(Len(out.queries[i].params))
    /\ (call.op \in Updates /\ Len(out.queries) > 0) =>
         /\ out.queries[1].params = ObjectValues(out.after) \o <<call.key>>
         /\ Len(out.after) = Len(call.arg)
         /\ \A i \in 1..Len(call.arg) :
              Contains(out.queries[1].text,
                       "\"" \o Column(call.op, call.arg[i].k) \o "\"=$" \o ToString(i))
         /\ Contains(out.queries[1].text,
                     " WHERE " \o KeyColumn(call.op) \o " = $"
                       \o ToString(Len(call.arg) + 1) \o " RETURNING ")
    /\ (call.op = "Company.findAll" /\ Len(out.queries) > 0) =>
         /\ HasOwn(call.arg, "minEmployees") =>
              Binds(out.queries[1], "num_employees >= ", GetProp(call.arg, "minEmployees"))
         /\ HasOwn(call.arg, "maxEmployees") =>
              Binds(out.queries[1], "num_employees <= ", GetProp(call.arg, "maxEmployees"))
         /\ Truthy(GetProp(call.arg, "name")) =>
              Binds(out.queries[1], "name ILIKE ",
                    Str("%" \o GetProp(call.arg, "name").s \o "%"))
    /\ (call.op = "Job.findAll" /\ Len(out.queries) > 0) =>
         /\ HasOwn(call.arg, "minSalary") =>
              Binds(out.queries[1], "salary >= ", GetProp(call.arg, "minSalary"))
         /\ Truthy(GetProp(call.arg, "title")) =>
              Binds(out.queries[1], "title ILIKE ",
                    Str("%" \o GetProp(call.arg, "title").s \o "%"))

(* C4: Job.update has handed its query for two fields: $3 is the id *)
C4_Witness ==
  /\ Settled("Job.update")
  /\ Len(call.arg) = 2
  /\ out.err = ""
  /\ Placeholders(out.queries[1].text) = <<1, 2, 3>>
  /\ out.queries[1].params[3] = call.key

(* the properties a caller of op draws its map from *)
InputProps(op) ==
  CASE op = "sqlForPartialUpdate" -> UpdateData
    [] op = "Company.findAll" -> CompanyCriteria
    [] op = "Job.findAll" -> JobCriteria
    [] op = "Job.searchAll" -> JobCriteria

(* the maps with the keys of arg, in the same order, whatever the values *)
Variants(op, arg) ==
  {o \in [1..Len(arg) -> InputProps(op)] : \A i \in 1..Len(arg) : o[i].k = arg[i].k}

(* the maps with the entries of arg in any order *)
Orders(arg) ==
  {o \in [1..Len(arg) -> {arg[i] : i \in 1..Len(arg)}] :
     \A i, j \in 1..Len(o) : i # j => o[i] # o[j]}

(* the (text, params) pairs a call of op with arg gives rise to: the       *)
(* clause and the values for the builder, the queries handed to db.query   *)
(* for a search                                                            *)
Handed(op, arg, jsToSql) ==
  CASE op = "sqlForPartialUpdate" ->
         IF sqlForPartialUpdate(arg, jsToSql).err # "" THEN <<>>
         ELSE <<Query(sqlForPartialUpdate(arg, jsToSql).setCols,
                      sqlForPartialUpdate(arg, jsToSql).values)>>
    [] op = "Company.findAll" ->
         IF CompanyRangeError(arg) THEN <<>>
         ELSE <<CompanyFindAllQuery(CompanyFilters(arg))>>
    [] op = "Job.findAll" -> <<JobFindAllQuery(JobFilters(arg))>>
    [] op = "Job.searchAll" -> JobSearchAll(InitDb, arg).queries

(* the same of the call that has settled *)
HandedNow ==
  IF call.op = "sqlForPartialUpdate"
    THEN IF out.err # "" THEN <<>> ELSE <<Query(out.built.setCols, out.built.values)>>
    ELSE out.queries

(* the filters of a map that a search acts on: a bound that is defined, a  *)
(* name, a title or a flag that is truthy                                  *)
Active(op, arg) ==
  IF op = "Company.findAll"
    THEN {k \in {"minEmployees", "maxEmployees"} : GetProp(arg, k) # Undefined}
           \cup {k \in {"name"} : Truthy(GetProp(arg, k))}
  ELSE IF op \in {"Job.findAll", "Job.searchAll"}
    THEN {k \in {"minSalary"} : GetProp(arg, k) # Undefined}
           \cup {k \in {"hasEquity", "title"} : Truthy(GetProp(arg, k))}
  ELSE {}

(* C5, as the claim states it: two calls of sqlForPartialUpdate,           *)
(* Company.findAll, Job.findAll or Job.searchAll whose maps have the same  *)
(* keys give rise to the same query text, whatever the values.             *)
C5_SameKeysSameText ==
  (pc = "settled" /\ call.op \in Searches \cup {"sqlForPartialUpdate"}) =>
    \A other \in Variants(call.op, call.arg) :
      Texts(Handed(call.op, other, call.jsToSql)) = Texts(HandedNow)

(* C5, amended: no value is written into query text.  Two calls whose maps *)
(* have the same keys and whose values make the same filters active (a     *)
(* bound defined, a name, title or flag truthy), neither rejected before   *)
(* its query is built, give rise to the same query text; the values are in *)
(* the parameter lists only.                                               *)
C5_TextIndependentOfValues ==
  (pc = "settled" /\ call.op \in Searches \cup {"sqlForPartialUpdate"}) =>
    \A other \in Variants(call.op, call.arg) :
      (/\ Active(call.op, other) = Active(call.op, call.arg)
       /\ HandedNow # <<>>
       /\ Handed(call.op, other, call.jsToSql) # <<>>)
      => Texts(Handed(call.op, other, call.jsToSql)) = Texts(HandedNow)

(* C5: Company.findAll has handed its query for maxEmployees 1, and the    *)
(* query for maxEmployees 2 has another parameter list and the same text   *)
C5_Witness ==
  /\ Settled("Company.findAll")
  /\ call.arg = <<Prop("maxEmployees", Num(1))>>
  /\ out.queries[1].params = <<Num(1)>>
  /\ Handed("Company.findAll", <<Prop("maxEmployees", Num(2))>>, <<>>)[1].params = <<Num(2)>>
  /\ Contains(out.queries[1].text, "num_employees <= $1")

(* the filter names a search declares *)
Declared(op) ==
  IF op = "Company.findAll" THEN {"minEmployees", "maxEmployees", "name"}
  ELSE {"minSalary", "hasEquity", "title"}

(* the table a search reads, and the column that tells its rows apart *)
Searched(op) == IF op = "Company.findAll" THEN "companies" ELSE "jobs"

RowKey(op) == IF op = "Company.findAll" THEN "handle" ELSE "id"

(* the keys of the rows a search returned *)
Returned == {r[RowKey(call.op)] : r \in out.rows}

(* s contains v, letters matching whatever their case *)
ContainsNoCase(s, v) ==
  \E k \in 1..(Len(s) - Len(v) + 1) :
    \A m \in 1..Len(v) : ToLower(CharAt(s, k + m - 1)) = ToLower(CharAt(v, m))

(* C6: a search whose map holds none of the declared filter names (the     *)
(* empty map, or undeclared keys only) hands the store a query without     *)
(* predicate and without parameters and returns every row of its table.    *)
C6_NoFilterReturnsAll ==
  (/\ pc = "settled"
   /\ call.op \in Searches
   /\ \A i \in 1..Len(call.arg) : call.arg[i].k \notin Declared(call.op))
  => /\ out.err = ""
     /\ Len(out.queries) = 1
     /\ out.queries[1].params = <<>>
     /\ Returned = {r[RowKey(call.op)] : r \in db[Searched(call.op)]}

(* C7: Company.findAll called with minEmployees and maxEmployees, the      *)
(* first greater than the second, ends with BadRequestError, and no query  *)
(* has been built or handed to the store.                                  *)
C7_RangeRejectedBeforeQuery ==
  (/\ Settled("Company.findAll")
   /\ HasOwn(call.arg, "minEmployees")
   /\ HasOwn(call.arg, "maxEmployees")
   /\ Own(call.arg, "minEmployees").n > Own(call.arg, "maxEmployees").n)
  => /\ out.err = "BadRequestError"
     /\ out.queries = <<>>
     /\ out.rows = {}

(* C7: the search has ended for minEmployees 2 and maxEmployees 1 *)
C7_Witness ==
  /\ Settled("Company.findAll")
  /\ GetProp(call.arg, "minEmployees") = Num(2)
  /\ GetProp(call.arg, "maxEmployees") = Num(1)
  /\ out.err = "BadRequestError"

(* position of a predicate in a text, and whether one comes before another *)
Before(text, a, b) ==
  (Contains(text, a) /\ Contains(text, b)) => IndexOf(text, a) < IndexOf(text, b)

(* C8: a search gives rise to the same query text and the same parameter   *)
(* list for every order in which the entries of its map were inserted, and *)
(* the predicates stand in the order the method declares them:             *)
(* minEmployees, maxEmployees, name; minSalary, hasEquity, title.          *)
C8_DeclaredOrder ==
  (pc = "settled" /\ call.op \in Searches) =>
    /\ \A other \in Orders(call.arg) : Handed(call.op, other, <<>>) = out.queries
    /\ \A i \in 1..Len(out.queries) :
         /\ Before(out.queries[i].text, "num_employees >= ", "num_employees <= ")
         /\ Before(out.queries[i].text, "num_employees <= ", "name ILIKE ")
         /\ Before(out.queries[i].text, "num_employees >= ", "name ILIKE ")
         /\ Before(out.queries[i].text, "salary >= ", "equity > 0")
         /\ Before(out.queries[i].text, "equity > 0", "title ILIKE ")
         /\ Before(out.queries[i].text, "salary >= ", "title ILIKE ")

(* C8: Company.findAll has handed its query for a map that names name      *)
(* before minEmployees: the predicate of minEmployees comes first          *)
C8_Witness ==
  /\ Settled("Company.findAll")
  /\ call.arg = <<Prop("name", Str("c1")), Prop("minEmployees", Num(2))>>
  /\ Contains(out.queries[1].text, " WHERE num_employees >= $1 AND name ILIKE $2 ")
  /\ out.queries[1].params = <<Num(2), Str("%c1%")>>

(* C9: a search by title alone (Job.findAll, Job.searchAll) or by name     *)
(* alone (Company.findAll) returns exactly the rows whose title or name    *)
(* contains the value, letters matching whatever their case.               *)
C9_ContainsFilter ==
  /\ (/\ pc = "settled"
      /\ call.op \in {"Job.findAll", "Job.searchAll"}
      /\ Active(call.op, call.arg) = {"title"}
      /\ ~HasOwn(call.arg, "hasEquity"))
     => /\ out.err = ""
        /\ Returned = {j.id : j \in {j \in db.jobs :
                                        ContainsNoCase(j.title.s, GetProp(call.arg, "title").s)}}
  /\ (Settled("Company.findAll") /\ Active(call.op, call.arg) = {"name"})
     => /\ out.err = ""
        /\ Returned = {c.handle : c \in {c \in db.companies :
                                            ContainsNoCase(c.name.s, GetProp(call.arg, "name").s)}}

(* C10: a job search (Job.findAll, Job.searchAll) with no filter but       *)
(* hasEquity: with hasEquity true the query carries the predicate          *)
(* equity > 0 and no parameter, and the jobs returned are those with       *)
(* equity greater than 0; with hasEquity absent or false every job is      *)
(* returned.                                                               *)
C10_EquityFlag ==
  (/\ pc = "settled"
   /\ call.op \in {"Job.findAll", "Job.searchAll"}
   /\ Active(call.op, call.arg) \subseteq {"hasEquity"})
  => /\ out.err = ""
     /\ Len(out.queries) = 1
     /\ out.queries[1].params = <<>>
     /\ IF Truthy(GetProp(call.arg, "hasEquity"))
          THEN /\ Contains(out.queries[1].text, "equity > 0")
               /\ Returned = {j.id : j \in {j \in db.jobs :
                                               j.equity.t = "number" /\ j.equity.n > 0}}
          ELSE /\ ~Contains(out.queries[1].text, "equity > 0")
               /\ Returned = {j.id : j \in db.jobs}

(* the table an update writes *)
Written(op) ==
  CASE op = "Job.update" -> "jobs"
    [] op = "Company.update" -> "companies"
    [] op = "User.update" -> "users"

(* the row old as change set data leaves it: the column of every key of    *)
(* data holds the value of that key, every other column what it held       *)
Changed(op, data, old) ==
  [c \in DOMAIN old |->
     IF \E i \in 1..Len(data) : Column(op, data[i].k) = c
       THEN data[CHOOSE i \in 1..Len(data) : Column(op, data[i].k) = c].v
       ELSE old[c]]

(* C11: when Job.update, Company.update or User.update succeeds for key k  *)
(* and change set C, the row of key k holds C's value (null included) in    *)
(* every column C names and what it held before in every other column,     *)
(* and every other row of the table and every other table is as it was.    *)
(* (User.update puts the hash of a password in C before it builds the      *)
(* query: the value C holds when the query is built is the value stored.)  *)
C11_UpdateFrame ==
  [][(pc = "called" /\ call.op \in Updates /\ pc' = "settled" /\ out'.err = "")
     => /\ \A t \in Tables \ {Written(call.op)} : db'[t] = db[t]
        /\ \E old \in db[Written(call.op)] :
             /\ old[KeyColumn(call.op)] = call.key
             /\ db'[Written(call.op)]
                  = (db[Written(call.op)] \ {old})
                      \cup {Changed(call.op, out'.after, old)}]_vars

(* C11: Job.update has succeeded for job 1 with title "Lead" and salary    *)
(* null: the row holds both, and its equity and company as before          *)
C11_Witness ==
  /\ Settled("Job.update")
  /\ out.err = ""
  /\ call.key = Num(1)
  /\ Len(call.arg) = 2
  /\ Job(1, "Lead", Null, Num(0), "c1") \in db.jobs

(* the table a call by key reads or writes, and the column of the key *)
Kept(op) ==
  IF StartsWithAt(op, "Job.", 1) THEN "jobs"
  ELSE IF StartsWithAt(op, "Company.", 1) THEN "companies"
  ELSE "users"

KeyOf(op) ==
  IF StartsWithAt(op, "Job.", 1) THEN "id"
  ELSE IF StartsWithAt(op, "Company.", 1) THEN "handle"
  ELSE "username"

ByKeyOps ==
  {"Job.get", "Company.get", "User.get", "Job.update", "Company.update", "User.update",
   "Job.remove", "Company.remove", "User.remove"}

(* C12: get, update with non-empty data and remove of a job, a company or  *)
(* a user end with NotFoundError and leave the store as it was when no     *)
(* row is stored under the key; they do not end with NotFoundError when a  *)
(* row is stored under it.                                                 *)
C12_NotFoundByKey ==
  [][(/\ pc = "called"
      /\ pc' = "settled"
      /\ call.op \in ByKeyOps
      /\ call.op \in Updates => call.arg # <<>>)
     => IF \E r \in db[Kept(call.op)] : r[KeyOf(call.op)] = call.key
          THEN out'.err # "NotFoundError"
          ELSE out'.err = "NotFoundError" /\ db' = db]_vars

(* C12: User.get has ended with NotFoundError for u1, after u1 was removed *)
C12_Witness ==
  /\ Settled("User.get")
  /\ call.key = Str("u1")
  /\ out.err = "NotFoundError"
  /\ db.users = {}

(* the key a create call stores its row under, and the table *)
Created(p) ==
  IF procs[p].op = "Company.create" THEN GetProp(procs[p].arg, "handle")
  ELSE GetProp(procs[p].arg, "username")

Ends(p) == procs[p].pc = "settled"

(* C13: Company.create for a stored handle and User.register for a stored  *)
(* username end with BadRequestError and store nothing; of the calls in    *)
(* flight at the same time for the same key at most one succeeds, and each *)
(* of the others ends with BadRequestError, never with a failure of the    *)
(* store that no error class stands for.                                   *)
C13_CreateOncePerKey ==
  /\ \A p \in 1..MaxCalls :
       Ends(p) => /\ procs[p].err \in {"", "BadRequestError"}
                  /\ (\E r \in InitDb[Kept(procs[p].op)] :
                        r[KeyOf(procs[p].op)] = Created(p))
                     => procs[p].err = "BadRequestError"
  /\ \A p, q \in 1..MaxCalls :
       (/\ p # q
        /\ Ends(p)
        /\ Ends(q)
        /\ procs[p].op = procs[q].op
        /\ Created(p) = Created(q))
       => ~(procs[p].err = "" /\ procs[q].err = "")
  /\ \A t \in Tables : InitDb[t] \subseteq db[t]

(* C14: User.authenticate returns the user, without the password, for a   *)
(* stored user and the password the user was stored with, as right after   *)
(* User.register has succeeded; it ends with UnauthorizedError only for a  *)
(* username that is not stored or a password that is not the user's.       *)
C14_AuthenticateStoredUser ==
  Settled("User.authenticate")
  => IF \E u \in db.users :
          u.username = call.key /\ BcryptCompare(GetProp(call.arg, "password"), u.password)
       THEN /\ out.err = ""
            /\ \A user \in out.rows :
                 user.username = call.key /\ "password" \notin DOMAIN user
       ELSE out.err = "UnauthorizedError"

(* the last middleware the request ran through *)
Last == ran[Len(ran)]

Gates == {"ensureLoggedIn", "ensureAdmin", "ensureAdminOrSelf"}

(* res.locals.user is there *)
HasUser(locals) == Truthy(GetProp(locals, "user"))

IsAdmin(locals) == Truthy(GetProp(GetProp(locals, "user").a, "isAdmin"))

IsSelf(locals, params) ==
  GetProp(GetProp(locals, "user").a, "username") = GetProp(params, "username")

(* what a gate asks of the user beyond being there *)
Allowed(mw, locals, params) ==
  CASE mw = "ensureLoggedIn" -> TRUE
    [] mw = "ensureAdmin" -> IsAdmin(locals)
    [] mw = "ensureAdminOrSelf" -> IsAdmin(locals) \/ IsSelf(locals, params)

(* C15, as the claim states it: in ensureLoggedIn, ensureAdmin and         *)
(* ensureAdminOrSelf a request without user is passed on with              *)
(* UnauthorizedError and a request whose user fails what the gate asks is  *)
(* passed on with ForbiddenError.                                          *)
C15_UnauthorizedOrForbidden ==
  (ran # <<>> /\ Last.mw \in Gates)
  => Last.passed[1] = IF ~HasUser(Last.before) THEN "UnauthorizedError"
                      ELSE IF ~Allowed(Last.mw, Last.before, req.params)
                        THEN "ForbiddenError"
                      ELSE ""

(* C15, amended: a request without user is passed on with                  *)
(* UnauthorizedError by every gate; a request whose user fails what the    *)
(* gate asks is passed on with ForbiddenError by ensureAdminOrSelf and     *)
(* with UnauthorizedError by ensureAdmin.                                  *)
C15_UnauthorizedOrForbiddenBySelf ==
  (ran # <<>> /\ Last.mw \in Gates)
  => Last.passed[1] = IF ~HasUser(Last.before) THEN "UnauthorizedError"
                      ELSE IF Allowed(Last.mw, Last.before, req.params) THEN ""
                      ELSE IF Last.mw = "ensureAdminOrSelf" THEN "ForbiddenError"
                      ELSE "UnauthorizedError"

(* C15: ensureAdminOrSelf has passed on with ForbiddenError the request of *)
(* user test for the data of another user                                  *)
C15_Witness ==
  /\ ran # <<>>
  /\ Last.mw = "ensureAdminOrSelf"
  /\ HasUser(Last.before)
  /\ ~Allowed(Last.mw, Last.before, req.params)
  /\ Last.passed = <<"ForbiddenError">>

(* C16: ensureAdminOrSelf calls next with UnauthorizedError when           *)
(* res.locals.user is absent, and with ForbiddenError when the user is     *)
(* there, is no admin and has another username than req.params.username;   *)
(* it calls next without error exactly when the user is an admin or has    *)
(* that username.                                                          *)
C16_AdminOrSelf ==
  (ran # <<>> /\ Last.mw = "ensureAdminOrSelf")
  => /\ ~HasUser(Last.before) => Last.passed[1] = "UnauthorizedError"
     /\ (/\ HasUser(Last.before)
         /\ ~IsAdmin(Last.before)
         /\ ~IsSelf(Last.before, req.params)) => Last.passed[1] = "ForbiddenError"
     /\ Last.passed[1] = ""
          <=> (HasUser(Last.before)
                 /\ (IsAdmin(Last.before) \/ IsSelf(Last.before, req.params)))

(* C16: ensureAdminOrSelf has passed on the request of an admin for the    *)
(* data of another user                                                    *)
C16_Witness ==
  /\ ran # <<>>
  /\ Last.mw = "ensureAdminOrSelf"
  /\ IsAdmin(Last.before)
  /\ ~IsSelf(Last.before, req.params)
  /\ Last.passed = <<"">>

(* C17: ensureAdmin calls next without error exactly when res.locals.user  *)
(* is there and its isAdmin is true, and with UnauthorizedError otherwise. *)
C17_AdminOnly ==
  (ran # <<>> /\ Last.mw = "ensureAdmin")
  => Last.passed[1] = IF HasUser(Last.before) /\ IsAdmin(Last.before) THEN ""
                      ELSE "UnauthorizedError"

(* C17: ensureAdmin has passed on with UnauthorizedError the request of a  *)
(* user who is no admin                                                    *)
C17_Witness ==
  /\ ran # <<>>
  /\ Last.mw = "ensureAdmin"
  /\ HasUser(Last.before)
  /\ ~IsAdmin(Last.before)
  /\ Last.passed = <<"UnauthorizedError">>

(* the headers that carry a token signed with SECRET_KEY, and the payload  *)
(* of the token                                                            *)
ValidHeaders == {"Bearer " \o testJwt, "bearer " \o adminJwt, testJwt}

Presents(rq) ==
  rq.hasHeaders /\ GetProp(rq.headers, "authorization").s \in ValidHeaders

Signed(rq) ==
  IF GetProp(rq.headers, "authorization").s = "bearer " \o adminJwt
    THEN Object(<<Prop("username", Str("admin")), Prop("isAdmin", Bool(TRUE)),
                  Prop("iat", Num(1))>>)
    ELSE Object(<<Prop("username", Str("test")), Prop("isAdmin", Bool(FALSE)),
                  Prop("iat", Num(1))>>)

(* C18: authenticateJWT calls next without error, whatever the request.    *)
(* It sets res.locals.user to the payload of the token when the            *)
(* Authorization header carries a token that verifies under SECRET_KEY,    *)
(* and leaves res.locals as it was when there is no header or the token    *)
(* does not verify.  A request that starts with empty res.locals and runs  *)
(* through authenticateJWT and then ensureLoggedIn is passed on without    *)
(* error exactly when it carries such a token.                             *)
C18_AuthenticateJWT ==
  /\ \A i \in 1..Len(ran) :
       ran[i].mw = "authenticateJWT"
       => /\ \A k \in 1..Len(ran[i].passed) : ran[i].passed[k] = ""
          /\ ran[i].after = IF Presents(req) THEN SetProp(ran[i].before, "user", Signed(req))
                            ELSE ran[i].before
  /\ (/\ Len(ran) = 2
      /\ ran[1].mw = "authenticateJWT"
      /\ ran[1].before = <<>>
      /\ ran[2].mw = "ensureLoggedIn")
     => (ran[2].passed[1] = "" <=> Presents(req))

(* C18: a request with a token signed with another key has run through     *)
(* authenticateJWT, which left the user that res.locals held, and then     *)
(* through ensureLoggedIn                                                  *)
C18_Witness ==
  /\ Len(ran) = 2
  /\ ran[1].mw = "authenticateJWT"
  /\ ran[2].mw = "ensureLoggedIn"
  /\ req.hasHeaders
  /\ GetProp(req.headers, "authorization") = Str("Bearer " \o badJwt)
  /\ ran[1].before = <<Prop("user", UserOf("admin", TRUE))>>
  /\ ran[1].after = ran[1].before

(* a stored row satisfies every filter of arg *)
Satisfies(op, arg, r) ==
  IF op = "Company.findAll"
    THEN /\ "minEmployees" \in Active(op, arg)
            => (r.num_employees.t = "number"
                  /\ r.num_employees.n >= GetProp(arg, "minEmployees").n)
         /\ "maxEmployees" \in Active(op, arg)
            => (r.num_employees.t = "number"
                  /\ r.num_employees.n <= GetProp(arg, "maxEmployees").n)
         /\ "name" \in Active(op, arg)
            => ContainsNoCase(r.name.s, GetProp(arg, "name").s)
    ELSE /\ "minSalary" \in Active(op, arg)
            => (r.salary.t = "number" /\ r.salary.n >= GetProp(arg, "minSalary").n)
         /\ "hasEquity" \in Active(op, arg) => (r.equity.t = "number" /\ r.equity.n > 0)
         /\ "title" \in Active(op, arg)
            => ContainsNoCase(r.title.s, GetProp(arg, "title").s)

(* C19: for every combination of filters a search is called with (a range  *)
(* that C7 rejects apart), the query has one predicate per filter, the     *)
(* predicates joined with AND, and the search returns exactly the stored   *)
(* rows that satisfy every filter: minEmployees and minSalary as >=,       *)
(* maxEmployees as <=, name and title as contained whatever the case of    *)
(* the letters, hasEquity as equity > 0.                                   *)
C19_AllFiltersApply ==
  (/\ pc = "settled"
   /\ call.op \in Searches
   /\ ~JsGreater(GetProp(call.arg, "minEmployees"), GetProp(call.arg, "maxEmployees")))
  => /\ out.err = ""
     /\ Len(out.queries) = 1
     /\ Len(Split(out.queries[1].text, " AND "))
          = IF Active(call.op, call.arg) = {} THEN 1
            ELSE Cardinality(Active(call.op, call.arg))
     /\ Returned = {r[RowKey(call.op)] :
                      r \in {r \in db[Searched(call.op)] : Satisfies(call.op, call.arg, r)}}

(* C20: when a call of sqlForPartialUpdate, of a search or of an update    *)
(* has returned or thrown, the map it was called with holds the keys and   *)
(* the values it held when the call was made, in the same order, so that   *)
(* a second call with the map is a call with the same argument.            *)
C20_CallerMapUntouched ==
  (/\ pc = "settled"
   /\ call.op \in {"sqlForPartialUpdate"} \cup Searches \cup Updates)
  => out.after = call.arg

(* C21: every middleware that has run has called next exactly once, with   *)
(* an error or without, whether next returned or threw.                    *)
C21_NextExactlyOnce ==
  \A i \in 1..Len(ran) : Len(ran[i].passed) = 1

(* the call of p is a User.update whose UPDATE changed a row and which has *)
(* returned or thrown                                                      *)
Wrote(p) ==
  procs[p].op = "User.update" /\ procs[p].pc = "settled" /\ procs[p].result.rows # {}

(* user holds, for every field of data but the password, the value given   *)
Holds(user, data) ==
  \A i \in 1..Len(data) : data[i].k # "password" => user[data[i].k] = data[i].v

(* C22: a User.update whose UPDATE changed a row returns the data of the   *)
(* user, and every field of data but the password has in it the value the  *)
(* call wrote, whatever other calls of User.update and User.remove for the *)
(* same username are in flight.                                            *)
C22_UpdateReturnsWritten ==
  \A p \in 1..MaxCalls :
    Wrote(p) => /\ procs[p].err = ""
                /\ \A user \in procs[p].rows : Holds(user, procs[p].arg)
                /\ Cardinality(procs[p].rows) = 1

====
